---------------------------- MODULE Spec2Model ----------------------------
(***************************************************************************)
(* PlexMediaExport.py: the completeness reconciler of the TV show sheet    *)
(* (_calculate_series_completion, _calculate_season_cell, written row by   *)
(* row by _write_tv_show_row) and the TVMaze lookup path of one show       *)
(* (process_single_show -> get_tvmaze_show_info -> get_from_cache /        *)
(* _fetch_tvmaze_show_info_from_api under retry_on_failure / add_to_cache).*)
(* Further parts: the persisted cache file (load_tvmaze_cache,             *)
(* save_tvmaze_cache), the cache under concurrent worker threads, the      *)
(* field extraction of process_movie / process_show_metadata, and the      *)
(* worker pool of get_show_details with the sort of the sheet.  Each part  *)
(* has its own specification; the variables of the other parts stay idle.  *)
(*                                                                         *)
(* Python values are modelled as follows.                                  *)
(*   - a dict is a TLA+ function; d.get(k) tests k \in DOMAIN d;           *)
(*   - an Optional[TVMazeShowInfo] is either the record None or a record   *)
(*     [total_seasons, seasons]; a TVMazeShowInfo dict always holds its    *)
(*     two keys, so it is truthy, while its 'seasons' dict is falsy        *)
(*     exactly when it is empty;                                           *)
(*   - a PatternFill of STYLES['fills'] is the name of its colour, and a   *)
(*     fill of None is NoFill;                                             *)
(*   - an f-string is the concatenation of its pieces, integers being      *)
(*     formatted in decimal by ToStr.                                      *)
(***************************************************************************)
EXTENDS Integers, Sequences, FiniteSets, TLC

VARIABLES
    \* ---- the report: one row of create_tv_shows_worksheet ----
    show_info_full,         \* the show's record: tvmaze_info, seasons_in_plex
    max_seasons_overall,    \* the sheet's number of regular season columns
    season_headers_list,    \* "S00"?, "S01", ... of _generate_tv_show_headers
    row,                    \* the cells written so far: series status, then seasons
    \* ---- the lookup path: process_single_show on one show after another ----
    _persistent_tvmaze_cache,   \* cache key -> [timestamp, data]
    now,                    \* datetime.now(), in ticks (TicksPerDay to a day)
    ticks,                  \* how often the clock has advanced
    pc,                     \* where process_single_show stands
    show_obj,               \* the show being processed
    tvmaze_info,            \* process_single_show's local tvmaze_info
    lookup,                 \* the get_tvmaze_show_info call in progress
    calls,                  \* get_tvmaze_show_info calls made for this show, in order
    fetch_log,              \* the latest call of _fetch_tvmaze_show_info_from_api
    resolved,               \* cache key -> time its latest fetch returned
    processed,              \* how many shows process_single_show has returned
    combined_show_data,     \* the record it returned last
    \* ---- the persisted store: load_tvmaze_cache, lookups, save_tvmaze_cache ----
    cache_file,             \* what TVMAZE_CACHE_FILE holds
    store_pc,               \* "start", "run", "saved", "killed" or "crashed"
    lookups_done,           \* lookups of this run, each of another title
    \* ---- the cache under the worker threads ----
    threads,                \* thread -> where it stands in get_tvmaze_show_info
    \* ---- field extraction: process_movie / process_show_metadata ----
    plex_item,              \* the movie or show
    selected_fields,        \* SELECTED_MOVIE_FIELDS / SELECTED_SHOW_FIELDS
    item_data,              \* movie_data / show_metadata, once returned
    fields_done,            \* the function has returned
    \* ---- the worker pool: get_show_details on one section's shows ----
    shows,                  \* the batch, in the order of section.all()
    futures,                \* per show: queued / running / done / cancelled, result
    pool_pc,                \* where get_show_details and the sheet stand
    processed_shows_data,   \* the records get_show_details returns
    max_seasons_found,      \* the maximum it returns with them
    shows_data_full,        \* the sheet's rows once sorted
    overtaken,              \* a show finished before one that precedes it
    \* ---- single calls of the API client, the retry wrapper, the cache ----
    api_call,               \* _fetch_tvmaze_show_info_from_api on one episode list
    retry_call,             \* retry_on_failure's wrapper around one function
    cache_call              \* the latest get_from_cache / add_to_cache

reportVars == <<show_info_full, max_seasons_overall, season_headers_list, row>>

lookupVars == <<_persistent_tvmaze_cache, now, ticks, pc, show_obj, tvmaze_info,
                lookup, calls, fetch_log, resolved, processed,
                combined_show_data>>

\* The lookup path's variables but the cache and the clock.
lookupRest == <<ticks, pc, show_obj, tvmaze_info, lookup, calls, fetch_log, resolved,
                processed, combined_show_data>>

storeVars == <<cache_file, store_pc, lookups_done>>

\* The variables of the other parts, seen from the report and the lookup path,
\* and from the store.
raceVars == <<threads>>

fieldVars == <<plex_item, selected_fields, item_data, fields_done>>

poolVars == <<shows, futures, pool_pc, processed_shows_data, max_seasons_found,
              shows_data_full, overtaken>>

callVars == <<api_call, retry_call, cache_call>>

restVars == <<storeVars, raceVars, fieldVars, poolVars, callVars>>
notStore == <<reportVars, lookupRest, raceVars, fieldVars, poolVars, callVars>>
notRace == <<reportVars, lookupRest, storeVars, fieldVars, poolVars, callVars>>
notFields == <<reportVars, lookupVars, storeVars, raceVars, poolVars, callVars>>
notPool == <<reportVars, lookupVars, storeVars, raceVars, fieldVars, callVars>>
notCalls == <<reportVars, lookupRest, storeVars, raceVars, fieldVars, poolVars>>

vars == <<reportVars, lookupVars, restVars>>

----------------------------------------------------------------------------
(* Bounds of the model. *)

\* Season numbers range over 0..MaxSeason (0 is the specials season).
MaxSeason == 2

\* Episode counts range over 0..MaxEpisodes locally and 1..MaxEpisodes remotely.
MaxEpisodes == 2

\* process_single_show runs on at most MaxShows shows, one after another.
MaxShows == 2

\* The clock advances at most MaxTicks times, in steps of TicksPerDay ticks a day.
MaxTicks == 2
TicksPerDay == 2

\* An episode list of the API holds at most MaxEpisodeList episodes, of the
\* seasons 0..MaxApiSeason or without a season number.
MaxEpisodeList == 1
MaxApiSeason == 1

\* A run looks up the titles of at most MaxLibrary shows.
MaxLibrary == 257

\* MaxThreads worker threads use the cache at the same time.
MaxThreads == 2

\* An export selects at most MaxFields fields.
MaxFields == 3

\* A section holds up to MaxSmallBatch shows of any kind, or up to MaxBatch
\* shows that are all alike.
MaxSmallBatch == 2
MaxBatch == 11

\* The API client is applied to episode lists of up to MaxGroupList episodes of
\* the seasons 0..MaxGroupSeason, or without a season number.
MaxGroupList == 3
MaxGroupSeason == 2

\* The behaviour of a function under the retry wrapper is given for its first
\* MaxWrappedCalls calls at most; after them it returns.
MaxWrappedCalls == 5

\* The cache functions are called MaxCacheOps times at most.
MaxCacheOps == 2

\* --- API Configuration Constants --- / --- Cache Configuration Constants ---
TVMAZE_MAX_RETRIES == 3
TVMAZE_RETRY_DELAY == 1
backoff_factor == 2
TVMAZE_CACHE_MAX_AGE_DAYS == 30
TVMAZE_CACHE_SIZE == 256

\* --- Performance Configuration ---
MAX_WORKER_THREADS == 10

----------------------------------------------------------------------------
(* Python values. *)

\* Python's None where a TVMazeShowInfo is expected.
None == [none |-> TRUE]

\* A fill_pattern of None: the cell gets no fill.
NoFill == "None"

\* STYLES['fills'][name]: a fill is identified by its key.
STYLES_fills(name) == name

Digits == <<"0", "1", "2", "3", "4", "5", "6", "7", "8", "9">>

\* str(n) / f"{n}" for a non-negative integer.
RECURSIVE ToStr(_)
ToStr(n) == IF n < 10 THEN Digits[n + 1]
            ELSE ToStr(n \div 10) \o Digits[(n % 10) + 1]

\* max(keys, default=d) over the keys of a dict.
MaxKey(d, default) ==
    IF DOMAIN d = {} THEN default
    ELSE CHOOSE k \in DOMAIN d : \A j \in DOMAIN d : j <= k

----------------------------------------------------------------------------
(* The completeness reconciler. *)

\* The loop without its "if s_num == 0: continue".
CompleteRegularSeasons_withSpecials(seasons, plex_seasons_data) ==
    {s_num \in DOMAIN seasons :
        /\ s_num \in DOMAIN plex_seasons_data
        /\ plex_seasons_data[s_num].episodes_in_plex
               >= seasons[s_num].total_episodes
        /\ seasons[s_num].total_episodes > 0}

\* The loop counting a season as soon as Plex holds an episode of it.
CompleteRegularSeasons_anyEpisode(seasons, plex_seasons_data) ==
    {s_num \in DOMAIN seasons :
        /\ s_num # 0
        /\ s_num \in DOMAIN plex_seasons_data
        /\ plex_seasons_data[s_num].episodes_in_plex > 0
        /\ seasons[s_num].total_episodes > 0}

\* The loop of _calculate_series_completion over tvmaze_info['seasons']: the
\* seasons it counts in complete_plex_regular_seasons_count.  plex_s_data and
\* tvmaze_s_data are non-empty dicts when present, hence truthy.
CompleteRegularSeasons(seasons, plex_seasons_data) ==
    {s_num \in DOMAIN seasons :
        /\ s_num # 0
        /\ s_num \in DOMAIN plex_seasons_data
        /\ plex_seasons_data[s_num].episodes_in_plex
               >= seasons[s_num].total_episodes
        /\ seasons[s_num].total_episodes > 0}

\* The fill chain ending in a yellow highlight instead of no fill.
SeriesFill_attention(complete, total) ==
    IF total = 0 THEN STYLES_fills("gray")
    ELSE IF complete >= total THEN STYLES_fills("green")
    ELSE IF complete > 0 THEN STYLES_fills("red")
    ELSE STYLES_fills("yellow")

\* The fill chain with its tests of green and red exchanged.
SeriesFill_redFirst(complete, total) ==
    IF total = 0 THEN STYLES_fills("gray")
    ELSE IF complete > 0 THEN STYLES_fills("red")
    ELSE IF complete >= total THEN STYLES_fills("green")
    ELSE NoFill

\* series_fill of _calculate_series_completion when TVMaze info exists.
SeriesFill(complete, total) ==
    IF total = 0 THEN STYLES_fills("gray")
    ELSE IF complete >= total THEN STYLES_fills("green")
    ELSE IF complete > 0 THEN STYLES_fills("red")
    ELSE NoFill

\* The no-TVMaze-info branch counting the specials season too.
NoInfoSeriesCell_withSpecials(plex_seasons_data) ==
    LET plex_regular_season_count == Cardinality(DOMAIN plex_seasons_data)
    IN  [text |-> ToStr(plex_regular_season_count) \o "/?",
         fill |-> IF plex_regular_season_count > 0
                      THEN STYLES_fills("yellow") ELSE NoFill]

\* The else branch of _calculate_series_completion: no TVMaze info.
NoInfoSeriesCell(plex_seasons_data) ==
    LET plex_regular_season_count ==
            Cardinality({s_num \in DOMAIN plex_seasons_data : s_num > 0})
    IN  [text |-> ToStr(plex_regular_season_count) \o "/?",
         fill |-> IF plex_regular_season_count > 0
                      THEN STYLES_fills("yellow") ELSE NoFill]

\* _calculate_series_completion(tvmaze_info, plex_seasons_data).
\* tvmaze_info.get('total_seasons') is never None: every TVMazeShowInfo holds it.
_calculate_series_completion(info, plex_seasons_data) ==
    IF info # None
    THEN LET seasons == info.seasons
             tvmaze_total_regular_seasons ==
                 Cardinality({s_num \in DOMAIN seasons : s_num > 0})
             complete_plex_regular_seasons_count ==
                 Cardinality(CompleteRegularSeasons(seasons, plex_seasons_data))
         IN  [text |-> ToStr(complete_plex_regular_seasons_count) \o "/"
                           \o ToStr(tvmaze_total_regular_seasons),
              fill |-> SeriesFill(complete_plex_regular_seasons_count,
                                  tvmaze_total_regular_seasons)]
    ELSE NoInfoSeriesCell(plex_seasons_data)

\* The season cell turning green only on a strictly larger local count.
KnownSeasonCell_strict(plex_s_ep_count, tvmaze_s_ep_count) ==
    [text |-> ToStr(plex_s_ep_count) \o "/" \o ToStr(tvmaze_s_ep_count),
     fill |-> IF tvmaze_s_ep_count = 0
                  THEN (IF plex_s_ep_count = 0 THEN STYLES_fills("gray")
                        ELSE STYLES_fills("yellow"))
              ELSE IF plex_s_ep_count > tvmaze_s_ep_count
                  THEN STYLES_fills("green")
              ELSE IF plex_s_ep_count > 0 THEN STYLES_fills("red")
              ELSE NoFill]

\* _calculate_season_cell, the season has an entry in tvmaze_info['seasons'].
KnownSeasonCell(plex_s_ep_count, tvmaze_s_ep_count) ==
    [text |-> ToStr(plex_s_ep_count) \o "/" \o ToStr(tvmaze_s_ep_count),
     fill |-> IF tvmaze_s_ep_count = 0
                  THEN (IF plex_s_ep_count = 0 THEN STYLES_fills("gray")
                        ELSE STYLES_fills("yellow"))
              ELSE IF plex_s_ep_count >= tvmaze_s_ep_count
                  THEN STYLES_fills("green")
              ELSE IF plex_s_ep_count > 0 THEN STYLES_fills("red")
              ELSE NoFill]

\* The missing-season branch highlighting whatever the local count is.
MissingSeasonCell_always(plex_s_ep_count) ==
    [text |-> ToStr(plex_s_ep_count) \o "/?", fill |-> STYLES_fills("yellow")]

\* _calculate_season_cell, TVMaze lists seasons but not this one.
MissingSeasonCell(plex_s_ep_count) ==
    IF plex_s_ep_count > 0
    THEN [text |-> ToStr(plex_s_ep_count) \o "/?", fill |-> STYLES_fills("yellow")]
    ELSE [text |-> "", fill |-> STYLES_fills("gray")]

\* _calculate_season_cell, no TVMaze info or an empty tvmaze_info['seasons'].
NoSeasonsCell(season_num, plex_s_ep_count, plex_seasons_data) ==
    IF plex_s_ep_count > 0
    THEN [text |-> ToStr(plex_s_ep_count) \o "/?", fill |-> STYLES_fills("yellow")]
    ELSE IF season_num > MaxKey(plex_seasons_data, -1)
    THEN [text |-> "", fill |-> STYLES_fills("gray")]
    ELSE [text |-> "", fill |-> NoFill]

\* plex_seasons_data.get(season_num, {}).get('episodes_in_plex', 0)
EpisodesInPlex(plex_seasons_data, season_num) ==
    IF season_num \in DOMAIN plex_seasons_data
    THEN plex_seasons_data[season_num].episodes_in_plex ELSE 0

\* _calculate_season_cell(season_num, tvmaze_info, plex_seasons_data)
_calculate_season_cell(season_num, info, plex_seasons_data) ==
    LET plex_s_ep_count == EpisodesInPlex(plex_seasons_data, season_num)
    IN  IF info # None /\ DOMAIN info.seasons # {}
        THEN IF season_num \in DOMAIN info.seasons
             THEN KnownSeasonCell(plex_s_ep_count,
                      info.seasons[season_num].total_episodes)
             ELSE MissingSeasonCell(plex_s_ep_count)
        ELSE NoSeasonsCell(season_num, plex_s_ep_count, plex_seasons_data)

----------------------------------------------------------------------------
(* The sheet's season headers. *)

\* f"S{i:02d}"
SeasonHeader(i) == IF i < 10 THEN "S0" \o ToStr(i) ELSE "S" \o ToStr(i)

\* int(season_header_text[1:]) of a header written by SeasonHeader.
HeaderSeason(season_header_text) ==
    CHOOSE i \in 0..(MaxSeason + 1) : SeasonHeader(i) = season_header_text

\* _generate_tv_show_headers: the season part of the header row.
_generate_tv_show_headers(has_specials, max_seasons) ==
    (IF has_specials THEN <<SeasonHeader(0)>> ELSE <<>>)
        \o [i \in 1..max_seasons |-> SeasonHeader(i)]

----------------------------------------------------------------------------
(* The inputs of the reconciler. *)

\* The dicts from a set of season numbers to a value of Vals.
Dicts(Vals) == UNION {[K -> Vals] : K \in SUBSET (0..MaxSeason)}

\* tvmaze_info['seasons']: season number -> {'total_episodes': n}.  A season is
\* created by the first episode counted in it ("setdefault(...) += 1"), so every
\* listed season has at least one episode.
TVMazeSeasons == Dicts([total_episodes : 1..MaxEpisodes])

\* A TVMazeShowInfo as _fetch_tvmaze_show_info_from_api builds it:
\* total_seasons is the largest season number, 0 when there is none.
ShowInfo(seasons) == [total_seasons |-> MaxKey(seasons, 0), seasons |-> seasons]

TVMazeInfos == {None} \cup {ShowInfo(seasons) : seasons \in TVMazeSeasons}

\* seasons_in_plex: season number -> {'episodes_in_plex': leafCount, 'season_number': n}
PlexSeasons ==
    {[s \in DOMAIN c |-> [episodes_in_plex |-> c[s], season_number |-> s]] :
        c \in Dicts(0..MaxEpisodes)}

\* max_seasons of the show's record (process_single_show).
ShowMaxSeasons(info) ==
    IF info # None THEN info.total_seasons ELSE 0

----------------------------------------------------------------------------
(* The TVMaze API client. *)

\* episode.get('season') is None: the episode carries no season number.
NoSeason == -1

\* The episode lists of /shows/{id}/episodes, each episode reduced to its season.
EpisodeLists ==
    UNION {[1..n -> {NoSeason} \cup (0..MaxApiSeason)] : n \in 0..MaxEpisodeList}

\* What the API does during one call of _fetch_tvmaze_show_info_from_api:
\*   lookup: the lookup/search request raises a RequestException (timeout,
\*     connection error, HTTP error status), its body is not JSON (ValueError),
\*     its JSON has an unexpected shape (any other exception), it names no show
\*     (null, empty list, no id), or it names a show;
\*   episodes_status / episodes: the same for the episode-list request.
Responses ==
    {[lookup |-> k, episodes_status |-> "none", episodes |-> <<>>] :
        k \in {"RequestException", "ValueError", "Malformed", "NotFound"}}
    \cup {[lookup |-> "Found", episodes_status |-> k, episodes |-> <<>>] :
        k \in {"RequestException", "ValueError", "Malformed"}}
    \cup {[lookup |-> "Found", episodes_status |-> "Ok", episodes |-> e] :
        e \in EpisodeLists}

\* The failure mode (or success) a response stands for.
FailureMode(response) ==
    IF response.lookup = "RequestException" THEN "network error on lookup"
    ELSE IF response.lookup = "NotFound" THEN "not found"
    ELSE IF response.lookup \in {"ValueError", "Malformed"} THEN "malformed payload"
    ELSE IF response.episodes_status = "RequestException" THEN "network error on episodes"
    ELSE IF response.episodes_status \in {"ValueError", "Malformed"} THEN "malformed payload"
    ELSE "ok"

\* How a Python call ends.
Return(v) == [kind |-> "return", value |-> v, exc |-> ""]
Raise(x) == [kind |-> "raise", value |-> None, exc |-> x]

\* The exception a failed request or an unusable body raises.
ExceptionOf(status) ==
    IF status = "Malformed" THEN "Exception" ELSE status

\* Every season of the list counted once, however many episodes it has.
CountEpisodes_once(episodes, seasons_data) ==
    [s \in {episodes[i] : i \in DOMAIN episodes} \ {NoSeason} |-> [total_episodes |-> 1]]

\* "for episode in episodes: ... setdefault(season_num, {'total_episodes': 0})
\* ['total_episodes'] += 1", skipping the episodes without season number.
RECURSIVE CountEpisodes(_, _)
CountEpisodes(episodes, seasons_data) ==
    IF episodes = <<>> THEN seasons_data
    ELSE LET season_num == Head(episodes)
         IN  CountEpisodes(Tail(episodes),
                 IF season_num = NoSeason THEN seasons_data
                 ELSE [s \in DOMAIN seasons_data \cup {season_num} |->
                          IF s = season_num
                          THEN [total_episodes |->
                                   (IF s \in DOMAIN seasons_data
                                    THEN seasons_data[s].total_episodes ELSE 0) + 1]
                          ELSE seasons_data[s]])

\* The body of _fetch_tvmaze_show_info_from_api's try block: how it ends.
FetchBody(response) ==
    IF response.lookup # "Found"
    THEN IF response.lookup = "NotFound"
         THEN Return(None)      \* no show_id: falls through to "return None"
         ELSE Raise(ExceptionOf(response.lookup))
    ELSE IF response.episodes_status # "Ok"
    THEN Raise(ExceptionOf(response.episodes_status))
    ELSE IF response.episodes = <<>>
    THEN Return([total_seasons |-> 0, seasons |-> <<>>])
    ELSE LET seasons_data == CountEpisodes(response.episodes, <<>>)
         IN  IF seasons_data = <<>>
             THEN Return([total_seasons |-> 0, seasons |-> <<>>])
             ELSE Return([total_seasons |-> MaxKey(seasons_data, 0),
                          seasons |-> seasons_data])

\* The function relying on the decorator for network errors: no
\* "except requests.exceptions.RequestException" of its own.
_fetch_tvmaze_show_info_from_api_noRequestCatch(response) ==
    LET out == FetchBody(response)
    IN  IF out.kind = "raise" /\ out.exc \in {"ValueError", "Exception"}
        THEN Return(None)
        ELSE out

\* _fetch_tvmaze_show_info_from_api, the function the decorator wraps: its
\* except clauses log RequestException, ValueError and any other Exception and
\* fall through to "return None".
_fetch_tvmaze_show_info_from_api(response) ==
    LET out == FetchBody(response)
    IN  IF out.kind = "raise" /\ out.exc \in {"RequestException", "ValueError", "Exception"}
        THEN Return(None)
        ELSE out

\* The wrapper retrying once more than max_retries allows.
wrapper_oneMoreRetry(out, attempt) ==
    IF out.kind = "return" THEN "return"
    ELSE IF out.exc = "RequestException"
         THEN (IF attempt <= TVMAZE_MAX_RETRIES THEN "retry" ELSE "raise")
         ELSE "raise"

\* retry_on_failure's wrapper, one pass of its loop: what it does with the way
\* the wrapped function ended in attempt number attempt (from 0).
wrapper(out, attempt) ==
    IF out.kind = "return" THEN "return"
    ELSE IF out.exc = "RequestException"
         THEN (IF attempt < TVMAZE_MAX_RETRIES THEN "retry" ELSE "raise")
         ELSE "raise"

----------------------------------------------------------------------------
(* The lookup cache. *)

\* The key without the prefix of its kind.
CacheKey_noPrefix(search_term, is_imdb_id) == search_term

\* cache_key = f"imdb:{search_term}" if is_imdb_id else f"title:{search_term}"
CacheKey(search_term, is_imdb_id) ==
    IF is_imdb_id THEN "imdb:" \o search_term ELSE "title:" \o search_term

\* (datetime.now() - timestamp).days: whole days, fractions dropped.
AgeDays(timestamp) == (now - timestamp) \div TicksPerDay

\* get_from_cache(key): what it returns ...
get_from_cache(key) ==
    IF key \notin DOMAIN _persistent_tvmaze_cache THEN None
    ELSE IF AgeDays(_persistent_tvmaze_cache[key].timestamp) > TVMAZE_CACHE_MAX_AGE_DAYS
    THEN None
    ELSE _persistent_tvmaze_cache[key].data

\* ... and the cache it leaves: an expired entry is deleted.
CacheAfterGet(key) ==
    IF /\ key \in DOMAIN _persistent_tvmaze_cache
       /\ AgeDays(_persistent_tvmaze_cache[key].timestamp) > TVMAZE_CACHE_MAX_AGE_DAYS
    THEN [k \in DOMAIN _persistent_tvmaze_cache \ {key} |-> _persistent_tvmaze_cache[k]]
    ELSE _persistent_tvmaze_cache

\* add_to_cache(key, data) on the cache c.
add_to_cache(c, key, data) ==
    [k \in DOMAIN c \cup {key} |->
        IF k = key THEN [timestamp |-> now, data |-> data] ELSE c[k]]

\* get_tvmaze_show_info after the fetch: "if result is not None: add_to_cache".
CacheAfterFetch(c, cache_key, result) ==
    IF result # None THEN add_to_cache(c, cache_key, result) ELSE c

----------------------------------------------------------------------------
(* The shows of the library. *)

\* An absent string (None) is the empty string: both are falsy, and the code
\* only tests them.
NoStr == ""

\* The shows: with or without an imdb guid, an original title, a title that
\* may be blank or read like the imdb id.  guid.id is scheme://id.
Show(guids, originalTitle, title) ==
    [guids |-> guids, originalTitle |-> originalTitle, title |-> title,
     seasons |-> <<[seasonNumber |-> 1, leafCount |-> 2]>>]

ImdbGuids == <<[scheme |-> "tvdb", id |-> "7"], [scheme |-> "imdb", id |-> "tt1"]>>

Shows == {Show(ImdbGuids, NoStr, "tt1"), Show(ImdbGuids, NoStr, " "),
          Show(<<>>, "tt1", " "), Show(<<>>, NoStr, " ")}

NoShow == [guids |-> <<>>, originalTitle |-> NoStr, title |-> NoStr, seasons |-> <<>>]

\* imdb_id: the id of the first guid starting with 'imdb://', else None.
ImdbId(show) ==
    LET imdb == {i \in 1..Len(show.guids) : show.guids[i].scheme = "imdb"}
    IN  IF imdb = {} THEN NoStr
        ELSE show.guids[CHOOSE i \in imdb : \A j \in imdb : i <= j].id

\* search_title := show_obj.originalTitle or show_obj.title
SearchTitle(show) ==
    IF show.originalTitle # NoStr THEN show.originalTitle ELSE show.title

\* str.strip() on the titles of the model.
Strip(str) == IF str \in {"", " "} THEN "" ELSE str

\* The title fallback also taken for an info without seasons.
NeedsTitleLookup_emptyIsMiss(info, search_title) ==
    /\ (info = None \/ info.seasons = <<>>)
    /\ search_title # NoStr
    /\ Strip(search_title) # ""

\* "if not tvmaze_info and (search_title := ...) and search_title.strip()"
NeedsTitleLookup(info, search_title) ==
    /\ info = None
    /\ search_title # NoStr
    /\ Strip(search_title) # ""

\* plex_seasons_data of process_single_show.
PlexSeasonsOf(show) ==
    LET numbered == {i \in 1..Len(show.seasons) : show.seasons[i].seasonNumber >= 0}
    IN  [n \in {show.seasons[i].seasonNumber : i \in numbered} |->
            LET i == CHOOSE j \in numbered :
                        /\ show.seasons[j].seasonNumber = n
                        /\ \A l \in numbered :
                               show.seasons[l].seasonNumber = n => l <= j
            IN  [episodes_in_plex |-> show.seasons[i].leafCount, season_number |-> n]]

----------------------------------------------------------------------------
(* process_single_show, on one show after another. *)

NoLookup == [search_term |-> NoStr, is_imdb_id |-> FALSE, attempt |-> 0, delay |-> 0]

NoFetch == [key |-> NoStr, modes |-> <<>>, sleeps |-> <<>>, done |-> FALSE,
            raised |-> FALSE, result |-> None]

\* No record returned yet.
NoRecord == [seasons_in_plex |-> <<>>, tvmaze_info |-> None, max_seasons |-> 0]

\* The report's variables while the lookup path runs, and the reverse.
ReportIdle ==
    /\ show_info_full = [tvmaze_info |-> None, seasons_in_plex |-> <<>>]
    /\ max_seasons_overall = 0
    /\ season_headers_list = <<>>
    /\ row = <<>>

NoLookupYet ==
    /\ ticks = 0
    /\ pc = "idle"
    /\ show_obj = NoShow
    /\ tvmaze_info = None
    /\ lookup = NoLookup
    /\ calls = <<>>
    /\ fetch_log = NoFetch
    /\ resolved = <<>>
    /\ processed = 0
    /\ combined_show_data = NoRecord

LookupIdle ==
    /\ _persistent_tvmaze_cache = <<>>
    /\ now = 0
    /\ NoLookupYet

\* The store while the other parts run: no cache file.
StoreIdle ==
    /\ cache_file = [kind |-> "missing"]
    /\ store_pc = "start"
    /\ lookups_done = 0

\* A thread before its call, and no threads at all.
NoEntry == [timestamp |-> 0, data |-> None]
IdleThread == [pc |-> "idle", key |-> NoStr, entry |-> NoEntry, hit |-> FALSE,
               result |-> None, fetch_no |-> 0]
RaceIdle == threads = <<>>

\* No item in hand.
FieldsIdle ==
    /\ plex_item = [kind |-> "none"]
    /\ selected_fields = <<>>
    /\ item_data = <<>>
    /\ fields_done = FALSE

\* get_show_details has not been called.
PoolIdle ==
    /\ shows = <<>>
    /\ futures = <<>>
    /\ pool_pc = "idle"
    /\ processed_shows_data = <<>>
    /\ max_seasons_found = 0
    /\ shows_data_full = <<>>
    /\ overtaken = FALSE

\* No call of the API client, of the wrapper or of the cache on its own.
NoApiCall == [episodes |-> <<>>, result |-> None, done |-> FALSE]
NoRetryCall ==
    [behaviour |-> <<>>, attempt |-> 0, delay |-> 0, calls |-> 0, sleeps |-> <<>>,
     pc |-> "idle", out |-> Return(None)]
NoCacheCall ==
    [op |-> "none", key |-> "", data |-> None, before |-> <<>>, at |-> 0,
     returned |-> None, count |-> 0]

CallsIdle ==
    /\ api_call = NoApiCall
    /\ retry_call = NoRetryCall
    /\ cache_call = NoCacheCall

RestIdle == StoreIdle /\ RaceIdle /\ FieldsIdle /\ PoolIdle /\ CallsIdle

\* The cache starts empty: load_tvmaze_cache found no cache file.
InitLookup == LookupIdle /\ ReportIdle /\ RestIdle

\* get_tvmaze_show_info(search_term, is_imdb_id) up to the cache lookup; on a
\* hit it returns to process_single_show, which goes on at return_pc.
BeginLookup(search_term, is_imdb_id, return_pc) ==
    LET cache_key == CacheKey(search_term, is_imdb_id)
        cached_result == get_from_cache(cache_key)
    IN  /\ calls' = Append(calls, [search_term |-> search_term, is_imdb_id |-> is_imdb_id])
        /\ _persistent_tvmaze_cache' = CacheAfterGet(cache_key)
        /\ IF cached_result # None
           THEN /\ tvmaze_info' = cached_result
                /\ pc' = return_pc
                /\ UNCHANGED <<lookup, fetch_log>>
           ELSE /\ pc' = "fetch"
                /\ lookup' = [search_term |-> search_term, is_imdb_id |-> is_imdb_id,
                              attempt |-> 0, delay |-> TVMAZE_RETRY_DELAY]
                /\ fetch_log' = [NoFetch EXCEPT !.key = cache_key]
                /\ UNCHANGED tvmaze_info

\* process_single_show starts on a show.
StartShow ==
    /\ pc = "idle"
    /\ processed < MaxShows
    /\ \E show \in Shows : show_obj' = show
    /\ tvmaze_info' = None
    /\ calls' = <<>>
    /\ pc' = "imdb"
    /\ UNCHANGED <<_persistent_tvmaze_cache, now, ticks, lookup, fetch_log, resolved,
                   processed, combined_show_data, reportVars, restVars>>

\* "if imdb_id and (tvmaze_info := get_tvmaze_show_info(imdb_id, is_imdb_id=True))"
LookupByImdbId ==
    /\ pc = "imdb"
    /\ IF ImdbId(show_obj) = NoStr
       THEN /\ pc' = "title"
            /\ UNCHANGED <<_persistent_tvmaze_cache, tvmaze_info, lookup, calls, fetch_log>>
       ELSE BeginLookup(ImdbId(show_obj), TRUE, "title")
    /\ UNCHANGED <<now, ticks, show_obj, resolved, processed, combined_show_data,
                   reportVars, restVars>>

\* "if not tvmaze_info and (search_title := ...) and search_title.strip():
\*      if (tvmaze_info := get_tvmaze_show_info(search_title))"
LookupByTitle ==
    /\ pc = "title"
    /\ IF NeedsTitleLookup(tvmaze_info, SearchTitle(show_obj))
       THEN BeginLookup(SearchTitle(show_obj), FALSE, "finish")
       ELSE /\ pc' = "finish"
            /\ UNCHANGED <<_persistent_tvmaze_cache, tvmaze_info, lookup, calls, fetch_log>>
    /\ UNCHANGED <<now, ticks, show_obj, resolved, processed, combined_show_data,
                   reportVars, restVars>>

\* One attempt of the decorated _fetch_tvmaze_show_info_from_api: the wrapped
\* function runs against the API; the wrapper returns its result to
\* get_tvmaze_show_info (which caches it and returns it), or sleeps and goes
\* round its loop, or re-raises; an exception leaves get_tvmaze_show_info and is
\* caught by process_single_show, which returns its minimal record.
FetchAttempt ==
    /\ pc = "fetch"
    /\ \E response \in Responses :
        LET out == _fetch_tvmaze_show_info_from_api(response)
            step == wrapper(out, lookup.attempt)
            modes == Append(fetch_log.modes, FailureMode(response))
        IN  IF step = "return"
            THEN /\ _persistent_tvmaze_cache' =
                        CacheAfterFetch(_persistent_tvmaze_cache, fetch_log.key, out.value)
                 /\ tvmaze_info' = out.value
                 /\ pc' = IF lookup.is_imdb_id THEN "title" ELSE "finish"
                 /\ fetch_log' = [fetch_log EXCEPT !.modes = modes, !.done = TRUE,
                                                   !.result = out.value]
                 /\ resolved' = [k \in DOMAIN resolved \cup {fetch_log.key} |->
                                    IF k = fetch_log.key THEN now ELSE resolved[k]]
                 /\ UNCHANGED <<lookup, processed, combined_show_data>>
            ELSE IF step = "retry"
            THEN /\ fetch_log' = [fetch_log EXCEPT !.modes = modes,
                                      !.sleeps = Append(fetch_log.sleeps, lookup.delay)]
                 /\ lookup' = [lookup EXCEPT !.attempt = lookup.attempt + 1,
                                             !.delay = lookup.delay * backoff_factor]
                 /\ UNCHANGED <<_persistent_tvmaze_cache, tvmaze_info, pc, resolved,
                                processed, combined_show_data>>
            ELSE /\ fetch_log' = [fetch_log EXCEPT !.modes = modes, !.done = TRUE,
                                                   !.raised = TRUE]
                 /\ combined_show_data' =
                        [seasons_in_plex |-> <<>>, tvmaze_info |-> None, max_seasons |-> 0]
                 /\ processed' = processed + 1
                 /\ pc' = "idle"
                 /\ UNCHANGED <<_persistent_tvmaze_cache, tvmaze_info, lookup, resolved>>
    /\ UNCHANGED <<now, ticks, show_obj, calls, reportVars, restVars>>

\* The rest of process_single_show: max_seasons, the Plex seasons, the record.
FinishShow ==
    /\ pc = "finish"
    /\ combined_show_data' =
           [seasons_in_plex |-> PlexSeasonsOf(show_obj),
            tvmaze_info |-> tvmaze_info,
            max_seasons |-> ShowMaxSeasons(tvmaze_info)]
    /\ processed' = processed + 1
    /\ pc' = "idle"
    /\ UNCHANGED <<_persistent_tvmaze_cache, now, ticks, show_obj, tvmaze_info, lookup,
                   calls, fetch_log, resolved, reportVars, restVars>>

\* Time passes: a fraction of a day, or as many days as the maximum age.
ClockSteps == {1, TVMAZE_CACHE_MAX_AGE_DAYS * TicksPerDay}

Tick ==
    /\ ticks < MaxTicks
    /\ \E d \in ClockSteps : now' = now + d
    /\ ticks' = ticks + 1
    /\ UNCHANGED <<_persistent_tvmaze_cache, pc, show_obj, tvmaze_info, lookup, calls,
                   fetch_log, resolved, processed, combined_show_data, reportVars, restVars>>

NextLookup ==
    StartShow \/ LookupByImdbId \/ LookupByTitle \/ FetchAttempt \/ FinishShow \/ Tick

SpecLookup == InitLookup /\ [][NextLookup]_vars

----------------------------------------------------------------------------
(* The persisted store: load_tvmaze_cache at start-up, the lookups of a run, *)
(* save_tvmaze_cache at the end of main.                                     *)

\* The infos a cache file holds.
StoredInfos == {ShowInfo(<<>>), ShowInfo(<<[total_episodes |-> 1]>>)}

\* The timestamps a cache file holds, as ages at start-up (now = 0): fresh,
\* as old as the maximum age, a fraction of a day older, a whole day older.
StoredTimestamps ==
    {0,
     0 - TVMAZE_CACHE_MAX_AGE_DAYS * TicksPerDay,
     0 - (TVMAZE_CACHE_MAX_AGE_DAYS * TicksPerDay + 1),
     0 - (TVMAZE_CACHE_MAX_AGE_DAYS + 1) * TicksPerDay}

\* An entry of cache_data['entries']: a dict with or without its 'timestamp'
\* and its 'data'.
FileEntries ==
    [has_timestamp : {TRUE}, has_data : {TRUE},
     timestamp : StoredTimestamps, data : StoredInfos]
    \cup {[has_timestamp |-> t, has_data |-> d, timestamp |-> 0, data |-> ShowInfo(<<>>)] :
             t \in BOOLEAN, d \in {FALSE}}
    \cup {[has_timestamp |-> FALSE, has_data |-> TRUE, timestamp |-> 0,
           data |-> ShowInfo(<<>>)]}

FileKeys == {CacheKey("tt1", TRUE), CacheKey("tt1", FALSE)}

\* A pickled dict, with or without 'version' and 'entries'.
CacheData(has_version, has_entries, entries) ==
    [kind |-> "dict", has_version |-> has_version, has_entries |-> has_entries,
     entries |-> entries]

\* What TVMAZE_CACHE_FILE can hold at start-up: nothing (no file), a file that
\* cannot be opened, bytes pickle cannot decode, a pickled value that is no
\* dict, or a pickled dict.
CacheFiles ==
    {[kind |-> k] : k \in {"missing", "unreadable", "undecodable", "notdict"}}
    \cup {CacheData(v, FALSE, <<>>) : v \in BOOLEAN}
    \cup {CacheData(v, TRUE, entries) :
             v \in BOOLEAN, entries \in UNION {[K -> FileEntries] : K \in SUBSET FileKeys}}

\* The body of load_tvmaze_cache up to its "except Exception": how it ends.
LoadBody(file) ==
    IF file.kind = "missing" THEN Return(<<>>)
    ELSE IF file.kind = "unreadable" THEN Raise("OSError")
    ELSE IF file.kind = "undecodable" THEN Raise("UnpicklingError")
    ELSE IF file.kind # "dict" \/ ~file.has_version \/ ~file.has_entries
    THEN Return(<<>>)
    ELSE LET valid == {key \in DOMAIN file.entries :
                          /\ file.entries[key].has_timestamp
                          /\ file.entries[key].has_data
                          /\ AgeDays(file.entries[key].timestamp)
                                 <= TVMAZE_CACHE_MAX_AGE_DAYS}
         IN  Return([key \in valid |->
                        [timestamp |-> file.entries[key].timestamp,
                         data |-> file.entries[key].data]])

\* load_tvmaze_cache without its "except Exception".
load_tvmaze_cache_noCatch(file) == LoadBody(file)

\* load_tvmaze_cache: "except Exception as e: ... return {}".
load_tvmaze_cache(file) ==
    LET out == LoadBody(file)
    IN  IF out.kind = "raise" THEN Return(<<>>) ELSE out

\* "_persistent_tvmaze_cache = load_tvmaze_cache()", at import.
Load ==
    /\ store_pc = "start"
    /\ LET out == load_tvmaze_cache(cache_file)
       IN  IF out.kind = "return"
           THEN /\ _persistent_tvmaze_cache' = out.value
                /\ store_pc' = "run"
           ELSE /\ store_pc' = "crashed"
                /\ UNCHANGED _persistent_tvmaze_cache
    /\ UNCHANGED <<cache_file, lookups_done, now, notStore>>

\* get_tvmaze_show_info on the title of the next show of a library whose
\* titles all differ ("1", "2", ...) and are all known to TVMaze.
LookupNext ==
    /\ store_pc = "run"
    /\ lookups_done < MaxLibrary
    /\ LET cache_key == CacheKey(ToStr(lookups_done + 1), FALSE)
       IN  _persistent_tvmaze_cache' =
               IF get_from_cache(cache_key) # None
               THEN CacheAfterGet(cache_key)
               ELSE CacheAfterFetch(CacheAfterGet(cache_key), cache_key, ShowInfo(<<>>))
    /\ lookups_done' = lookups_done + 1
    /\ UNCHANGED <<cache_file, store_pc, now, notStore>>

\* What pickle.dump(cache_data, f) puts in the file: 'version', and under
\* 'entries' the dict itself, every key of it, not the new entries alone.
SavedFile_thisRunOnly(cache) ==
    CacheData(TRUE, TRUE,
        [key \in DOMAIN cache \ FileKeys |->
            [has_timestamp |-> TRUE, has_data |-> TRUE,
             timestamp |-> cache[key].timestamp, data |-> cache[key].data]])

SavedFile(cache) ==
    CacheData(TRUE, TRUE,
        [key \in DOMAIN cache |->
            [has_timestamp |-> TRUE, has_data |-> TRUE,
             timestamp |-> cache[key].timestamp, data |-> cache[key].data]])

\* save_tvmaze_cache: "with open(TVMAZE_CACHE_FILE, 'wb') as f:
\* pickle.dump(cache_data, f)" writes into the file itself, which open()
\* has emptied. The call gets through; or it stops before the open, the file
\* as it was; or it stops between the open and the end of the dump, the file
\* cut short. It stops on an exception ("except Exception": logged, the run
\* ends as usual) or because the process is killed.
Save ==
    /\ store_pc = "run"
    /\ \E outcome \in {"written", "not opened", "truncated"} :
          cache_file' =
              IF outcome = "written" THEN SavedFile(_persistent_tvmaze_cache)
              ELSE IF outcome = "truncated" THEN [kind |-> "undecodable"]
              ELSE cache_file
    /\ store_pc' \in {"saved", "killed"}
    /\ UNCHANGED <<_persistent_tvmaze_cache, lookups_done, now, notStore>>

InitStore ==
    /\ LookupIdle
    /\ ReportIdle
    /\ cache_file \in CacheFiles
    /\ store_pc = "start"
    /\ lookups_done = 0
    /\ RaceIdle
    /\ PoolIdle
    /\ CallsIdle
    /\ FieldsIdle

NextStore == Load \/ LookupNext \/ Save

SpecStore == InitStore /\ [][NextStore]_vars

----------------------------------------------------------------------------
(* The cache under the worker threads of get_show_details: each thread runs   *)
(* get_tvmaze_show_info, statement by statement where it touches the cache.   *)
(* Nothing guards _persistent_tvmaze_cache: a thread can be switched out      *)
(* between any two statements of get_from_cache.                              *)

Threads == 1..MaxThreads

\* The keys the threads look up, and the info TVMaze has for them.
RaceKeys == {CacheKey("tt1", TRUE), CacheKey("tt1", FALSE)}
RaceInfo == ShowInfo(<<[total_episodes |-> 1]>>)

\* The caches load_tvmaze_cache can have returned at now = 0: per key no
\* entry, a fresh entry, or one that is a tick short of 31 days old.
LoadedCaches ==
    UNION {[K -> [timestamp : {0, 1 - (TVMAZE_CACHE_MAX_AGE_DAYS + 1) * TicksPerDay},
                  data : {ShowInfo(<<>>)}]] : K \in SUBSET RaceKeys}

\* The thread calls get_tvmaze_show_info: cache_key, then get_from_cache.
ThreadCall(t) ==
    /\ threads[t].pc = "idle"
    /\ \E key \in RaceKeys :
          threads' = [threads EXCEPT ![t].pc = "check", ![t].key = key]
    /\ UNCHANGED <<_persistent_tvmaze_cache, now, notRace>>

\* "if key not in _persistent_tvmaze_cache: return None"
GetCheck(t) ==
    /\ threads[t].pc = "check"
    /\ threads' = [threads EXCEPT ![t].pc =
                      IF threads[t].key \notin DOMAIN _persistent_tvmaze_cache
                      THEN "fetch" ELSE "read"]
    /\ UNCHANGED <<_persistent_tvmaze_cache, now, notRace>>

\* "entry = _persistent_tvmaze_cache[key]": a KeyError if the key has gone.
GetRead(t) ==
    /\ threads[t].pc = "read"
    /\ threads' =
          IF threads[t].key \in DOMAIN _persistent_tvmaze_cache
          THEN [threads EXCEPT ![t].pc = "age",
                               ![t].entry = _persistent_tvmaze_cache[threads[t].key]]
          ELSE [threads EXCEPT ![t].pc = "raised"]
    /\ UNCHANGED <<_persistent_tvmaze_cache, now, notRace>>

\* "age_days = (datetime.now() - entry['timestamp']).days", the test on it, and
\* on an entry that has not expired "return entry['data']".
GetAge(t) ==
    /\ threads[t].pc = "age"
    /\ threads' =
          IF AgeDays(threads[t].entry.timestamp) > TVMAZE_CACHE_MAX_AGE_DAYS
          THEN [threads EXCEPT ![t].pc = "del"]
          ELSE [threads EXCEPT ![t].pc = "done", ![t].hit = TRUE,
                               ![t].result = threads[t].entry.data]
    /\ UNCHANGED <<_persistent_tvmaze_cache, now, notRace>>

\* "del _persistent_tvmaze_cache[key]; return None": a KeyError if the key has
\* gone.
GetDel(t) ==
    /\ threads[t].pc = "del"
    /\ IF threads[t].key \in DOMAIN _persistent_tvmaze_cache
       THEN /\ _persistent_tvmaze_cache' =
                   [k \in DOMAIN _persistent_tvmaze_cache \ {threads[t].key} |->
                       _persistent_tvmaze_cache[k]]
            /\ threads' = [threads EXCEPT ![t].pc = "fetch"]
       ELSE /\ threads' = [threads EXCEPT ![t].pc = "raised"]
            /\ UNCHANGED _persistent_tvmaze_cache
    /\ UNCHANGED <<now, notRace>>

\* The threads whose call went to _fetch_tvmaze_show_info_from_api for the key.
Fetched(key) ==
    {u \in Threads : threads[u].key = key /\ threads[u].fetch_no > 0}

\* After the miss: the fetch, which finds the show or not, and "if result is
\* not None: add_to_cache(cache_key, result)", one store into the dict.
\* fetch_no counts the calls of the API client for the key, this one included.
FetchAndPut(t) ==
    /\ threads[t].pc = "fetch"
    /\ \E result \in {None, RaceInfo} :
          /\ _persistent_tvmaze_cache' =
                 CacheAfterFetch(_persistent_tvmaze_cache, threads[t].key, result)
          /\ threads' = [threads EXCEPT
                             ![t].pc = "done", ![t].result = result,
                             ![t].fetch_no =
                                 Cardinality(Fetched(threads[t].key)) + 1]
    /\ UNCHANGED <<now, notRace>>

\* The threads start on the cache as loaded.
InitRace ==
    /\ _persistent_tvmaze_cache \in LoadedCaches
    /\ now = 0
    /\ NoLookupYet
    /\ ReportIdle
    /\ StoreIdle
    /\ PoolIdle
    /\ CallsIdle
    /\ threads = [t \in Threads |-> IdleThread]
    /\ FieldsIdle

NextRace ==
    \/ \E t \in Threads :
          ThreadCall(t) \/ GetCheck(t) \/ GetRead(t) \/ GetAge(t) \/ GetDel(t)
              \/ FetchAndPut(t)
    \/ Tick

SpecRace == InitRace /\ [][NextRace]_vars

----------------------------------------------------------------------------
(* Field extraction: process_movie and process_show_metadata on one item. *)

\* The field names process_movie / process_show_metadata may find in the
\* selection: registered ones and one that no registry knows.  The configuration
\* drops a name outside ALL_POSSIBLE_..._FIELDS before the functions run and
\* falls back to the default fields when nothing is left; the functions read
\* the list as it is and are applied here to every non-empty list.
ShowFieldNames == {"Title", "Studio", "Bogus"}
MovieFieldNames == {"Title", "Video Resolution", "Bogus"}

\* _get_show_field_processors() / _get_movie_field_processors(): their keys.
ShowRegistry == {"Title", "Studio"}
MovieRegistry == {"Title", "Video Resolution"}

\* media_dependent_fields of process_movie.
media_dependent_fields == {"Video Resolution"}

\* An attribute of a Plex object: a value, None, no such attribute, or an
\* access that raises (the object reloads itself from the server and fails).
Missing == "<no attribute>"
IsNone == "<None>"
Raises == "<raises>"

\* The items: a show with its title and studio, a movie with its title and
\* either no media or a first media with its videoResolution.
ShowItems ==
    [kind : {"show"}, title : {"A", Missing, Raises}, studio : {"HBO", IsNone, Raises}]
MovieItems ==
    [kind : {"movie"}, title : {"A", Missing, Raises},
     media : {"<no media>"} \cup {"1080", "", IsNone}]

\* 'Title': lambda s: getattr(s, 'title', 'N/A')
TitleProcessor(obj) ==
    IF obj.title = Raises THEN Raise("Exception")
    ELSE IF obj.title = Missing THEN Return("N/A")
    ELSE Return(obj.title)

\* 'Studio': lambda s: getattr(s, 'studio', None) or 'N/A'
StudioProcessor(obj) ==
    IF obj.studio = Raises THEN Raise("Exception")
    ELSE IF obj.studio \in {Missing, IsNone} THEN Return("N/A")
    ELSE Return(obj.studio)

\* 'Video Resolution': lambda _, media, __:
\*     str(getattr(media, 'videoResolution', '')).strip()
\*     if media and getattr(media, 'videoResolution', '').strip() else 'Unknown'
\* (None has no strip: AttributeError).
VideoResolutionProcessor(media) ==
    IF media = "<no media>" THEN Return("Unknown")
    ELSE IF media = IsNone THEN Raise("AttributeError")
    ELSE IF media = "" THEN Return("Unknown")
    ELSE Return(media)

\* "media = movie.media[0] if movie.media else None", fetched only when a
\* media-dependent field is selected.
MediaOf(movie, selected) ==
    IF \E i \in 1..Len(selected) : selected[i] \in media_dependent_fields
    THEN movie.media ELSE "<no media>"

\* processor(...) of the registered field field_name on the item.
Processor(field_name, obj, media) ==
    IF field_name = "Title" THEN TitleProcessor(obj)
    ELSE IF field_name = "Studio" THEN StudioProcessor(obj)
    ELSE VideoResolutionProcessor(media)

\* An unknown field handled like a known one: its missing processor is called.
FieldValue_callsMissing(field_name, registry, obj, media) ==
    IF field_name \notin registry THEN "Error Processing Field"
    ELSE LET out == Processor(field_name, obj, media)
         IN  IF out.kind = "raise" THEN "Error Processing Field" ELSE out.value

\* One pass of the loop over the selected fields: the value of field_name.
FieldValue(field_name, registry, obj, media) ==
    IF field_name \notin registry THEN "N/A"
    ELSE LET out == Processor(field_name, obj, media)
         IN  IF out.kind = "raise" THEN "Error Processing Field" ELSE out.value

\* "for field_name in SELECTED_..._FIELDS: ...; data[field_name] = value"
RECURSIVE ExtractFields(_, _, _, _, _)
ExtractFields(selected, registry, obj, media, data) ==
    IF selected = <<>> THEN data
    ELSE LET field_name == Head(selected)
             value == FieldValue(field_name, registry, obj, media)
         IN  ExtractFields(Tail(selected), registry, obj, media,
                 [f \in DOMAIN data \cup {field_name} |->
                     IF f = field_name THEN value ELSE data[f]])

process_movie(movie, selected) ==
    ExtractFields(selected, MovieRegistry, movie, MediaOf(movie, selected), <<>>)

process_show_metadata(show, selected) ==
    ExtractFields(selected, ShowRegistry, show, "<no media>", <<>>)

\* The lists of selected fields, in any order, repeats included; never empty
\* ("if not SELECTED_..._FIELDS: SELECTED_..._FIELDS = DEFAULT_..._FIELDS").
FieldLists(names) == UNION {[1..n -> names] : n \in 1..MaxFields}

InitFields ==
    /\ LookupIdle
    /\ ReportIdle
    /\ StoreIdle
    /\ RaceIdle
    /\ PoolIdle
    /\ CallsIdle
    /\ \/ plex_item \in ShowItems /\ selected_fields \in FieldLists(ShowFieldNames)
       \/ plex_item \in MovieItems /\ selected_fields \in FieldLists(MovieFieldNames)
    /\ item_data = <<>>
    /\ fields_done = FALSE

ProcessMovie ==
    /\ ~fields_done
    /\ plex_item.kind = "movie"
    /\ item_data' = process_movie(plex_item, selected_fields)
    /\ fields_done' = TRUE
    /\ UNCHANGED <<plex_item, selected_fields, notFields>>

ProcessShowMetadata ==
    /\ ~fields_done
    /\ plex_item.kind = "show"
    /\ item_data' = process_show_metadata(plex_item, selected_fields)
    /\ fields_done' = TRUE
    /\ UNCHANGED <<plex_item, selected_fields, notFields>>

NextFields == ProcessMovie \/ ProcessShowMetadata

SpecFields == InitFields /\ [][NextFields]_vars

----------------------------------------------------------------------------
(* The worker pool: get_show_details on the shows of one section, then the *)
(* sort of create_tv_shows_worksheet.                                      *)

\* A show of the batch: its title and studio, what goes wrong while it is
\* processed, what TVMaze knows of it and the seasons Plex holds.  fault is
\*   "none"    - nothing;
\*   "lookup"  - show_obj.guids, show_obj.originalTitle or get_tvmaze_show_info
\*               raises (the Plex object fails to reload from the server);
\*   "cache"   - get_from_cache raises KeyError under the other workers;
\*   "seasons" - show_obj.seasons() raises.
\* A studio of Raises makes the 'Studio' extractor raise; a title of Missing is
\* a show object without the attribute title, a title of Raises one whose
\* title cannot be read.
PoolShow(title, studio, fault, info, seasons) ==
    [kind |-> "show", title |-> title, studio |-> studio, fault |-> fault,
     tvmaze |-> info, seasons |-> seasons]

OneSeasonInPlex == [s \in {1} |-> [episodes_in_plex |-> 1, season_number |-> 1]]
OneSeasonInfo == ShowInfo([s \in {1} |-> [total_episodes |-> 1]])
TwoSeasonInfo == ShowInfo([s \in {1, 2} |-> [total_episodes |-> 1]])

PoolShows ==
    {PoolShow("a", "HBO", "none", OneSeasonInfo, OneSeasonInPlex),
     PoolShow("A", "amc", "none", None, OneSeasonInPlex),
     PoolShow("B", "HBO", "none", TwoSeasonInfo, <<>>),
     PoolShow("B", Raises, "none", OneSeasonInfo, OneSeasonInPlex),
     PoolShow("a", "HBO", "lookup", OneSeasonInfo, OneSeasonInPlex),
     PoolShow("A", "HBO", "cache", OneSeasonInfo, OneSeasonInPlex),
     PoolShow("B", "amc", "seasons", OneSeasonInfo, OneSeasonInPlex),
     PoolShow(Missing, "HBO", "none", OneSeasonInfo, OneSeasonInPlex),
     PoolShow(Raises, "HBO", "none", OneSeasonInfo, OneSeasonInPlex)}

\* The shows a long section repeats.
AlikeShows ==
    {PoolShow("a", "HBO", "none", OneSeasonInfo, OneSeasonInPlex),
     PoolShow(Missing, "HBO", "none", OneSeasonInfo, OneSeasonInPlex)}

\* section.all() of a section that is not empty ("if not items: continue").
SmallBatches == UNION {[1..n -> PoolShows] : n \in 1..MaxSmallBatch}
LongBatches ==
    {[i \in 1..n |-> s] : n \in MAX_WORKER_THREADS..MaxBatch, s \in AlikeShows}

\* SELECTED_SHOW_FIELDS after the configuration's filter.
PoolSelections == {<<"Title">>, <<"Title", "Studio">>, <<"Studio", "Title">>, <<"Studio">>}

\* The record of the outer except clause: "Return minimal data on error".
MinimalRecord(show) ==
    [Title |-> show.title, seasons_in_plex |-> <<>>, tvmaze_info |-> None,
     max_seasons |-> 0]

\* process_single_show(show_obj) as a whole.  "show_obj.title" of the first
\* logging call raises for a show whose title is missing or cannot be read,
\* and so does the one of the except clause that catches it: that exception
\* leaves the function.
process_single_show(show, selected) ==
    IF show.title = Missing THEN Raise("AttributeError")
    ELSE IF show.title = Raises THEN Raise("Exception")
    ELSE IF show.fault \in {"lookup", "cache"} THEN Return(MinimalRecord(show))
    ELSE LET show_metadata == process_show_metadata(show, selected)
             plex_seasons_data ==
                 IF show.fault = "seasons" THEN <<>> ELSE show.seasons
         IN  Return([seasons_in_plex |-> plex_seasons_data,
                     tvmaze_info |-> show.tvmaze,
                     max_seasons |-> ShowMaxSeasons(show.tvmaze)] @@ show_metadata)

\* A future of executor.map: its state and, once done, what the call returned
\* or raised.
Pending == [kind |-> "pending", value |-> None, exc |-> ""]
Future(state, result) == [state |-> state, result |-> result]

Running(fs) == {i \in DOMAIN fs : fs[i].state = "running"}

\* One worker per show, however many there are.
num_workers_perShow(batch) == Len(batch)

\* "num_workers = min(MAX_WORKER_THREADS, len(shows))"
num_workers(batch) ==
    IF MAX_WORKER_THREADS <= Len(batch) THEN MAX_WORKER_THREADS ELSE Len(batch)

\* "show_max = show_data.pop('max_seasons', 0)": the record that is left.
Pop(show_data, key) == [k \in DOMAIN show_data \ {key} |-> show_data[k]]

\* The accumulator overwritten by each result: the last show's maximum.
MaxSeasonsOf_lastWins(results) ==
    IF results = <<>> THEN 0 ELSE results[Len(results)].max_seasons

\* "max_seasons_overall = max(max_seasons_overall, show_max)" over the results.
RECURSIVE MaxSeasonsOf(_)
MaxSeasonsOf(results) ==
    IF results = <<>> THEN 0
    ELSE LET rest == MaxSeasonsOf(Tail(results))
             show_max == Head(results).max_seasons
         IN  IF show_max >= rest THEN show_max ELSE rest

\* str.lower() on the strings the sort meets.
Lower(s) ==
    CASE s = "A" -> "a"
      [] s = "B" -> "b"
      [] s = "HBO" -> "hbo"
      [] s = "N/A" -> "n/a"
      [] s = "Error Processing Field" -> "error processing field"
      [] OTHER -> s

\* Python's order of these strings (by code point), smallest first.
StrOrder ==
    <<"", "A", "B", "Error Processing Field", "HBO", "N/A",
      "a", "amc", "b", "error processing field", "hbo", "n/a">>

StrRank(s) == CHOOSE i \in 1..Len(StrOrder) : StrOrder[i] = s
StrLeq(s, t) == StrRank(s) <= StrRank(t)

\* "'Title' if 'Title' in SELECTED_SHOW_FIELDS else (SELECTED_SHOW_FIELDS[0]
\*  if SELECTED_SHOW_FIELDS else None)"; the selection is never empty.
sort_by_field_show(selected) ==
    IF \E i \in 1..Len(selected) : selected[i] = "Title" THEN "Title"
    ELSE selected[1]

\* x.get(key, default)
Get(x, key, default) == IF key \in DOMAIN x THEN x[key] ELSE default

\* The key compared as it is written.
SortKey_caseSensitive(x, field) == Get(x, field, "")

\* "key=lambda x: str(x.get(sort_by_field_show, '')).lower()"
SortKey(x, field) == Lower(Get(x, field, ""))

\* list.sort is stable: a record goes behind those whose key is not larger.
Insert(sorted, x, field) ==
    LET pos == Cardinality({i \in 1..Len(sorted) :
                   StrLeq(SortKey(sorted[i], field), SortKey(x, field))})
    IN  SubSeq(sorted, 1, pos) \o <<x>> \o SubSeq(sorted, pos + 1, Len(sorted))

RECURSIVE SortBy(_, _)
SortBy(data, field) ==
    IF data = <<>> THEN <<>>
    ELSE Insert(SortBy(SubSeq(data, 1, Len(data) - 1), field),
                data[Len(data)], field)

InitPool ==
    /\ LookupIdle
    /\ ReportIdle
    /\ StoreIdle
    /\ RaceIdle
    /\ CallsIdle
    /\ plex_item = [kind |-> "none"]
    /\ item_data = <<>>
    /\ fields_done = FALSE
    /\ \/ shows \in SmallBatches /\ selected_fields \in PoolSelections
       \/ shows \in LongBatches /\ selected_fields = <<"Title">>
    /\ futures = [i \in 1..Len(shows) |-> Future("queued", Pending)]
    /\ pool_pc = "map"
    /\ processed_shows_data = <<>>
    /\ max_seasons_found = 0
    /\ shows_data_full = <<>>
    /\ overtaken = FALSE

\* A worker thread takes the next show of the queue.
Start(i) ==
    /\ pool_pc = "map"
    /\ futures[i].state = "queued"
    /\ \A j \in 1..(i - 1) : futures[j].state # "queued"
    /\ Cardinality(Running(futures)) < num_workers(shows)
    /\ futures' = [futures EXCEPT ![i] = Future("running", Pending)]
    /\ UNCHANGED <<shows, pool_pc, processed_shows_data, max_seasons_found,
                   shows_data_full, overtaken, notPool>>

\* process_single_show returns or raises in its worker.
Finish(i) ==
    /\ pool_pc \in {"map", "raising"}
    /\ futures[i].state = "running"
    /\ futures' = [futures EXCEPT
           ![i] = Future("done", process_single_show(shows[i], selected_fields))]
    /\ overtaken' = (overtaken \/ \E j \in 1..(i - 1) : futures[j].state # "done")
    /\ UNCHANGED <<shows, pool_pc, processed_shows_data, max_seasons_found,
                   shows_data_full, notPool>>

\* "list(executor.map(...))" reads the results in the order of the shows and
\* meets one that raised: the exception leaves the list() call and the futures
\* still queued are cancelled.
Abort ==
    /\ pool_pc = "map"
    /\ \E i \in DOMAIN futures :
          /\ futures[i].state = "done" /\ futures[i].result.kind = "raise"
          /\ \A j \in 1..(i - 1) : futures[j].state = "done"
    /\ futures' = [i \in DOMAIN futures |->
                      IF futures[i].state = "queued"
                      THEN Future("cancelled", Pending) ELSE futures[i]]
    /\ pool_pc' = "raising"
    /\ UNCHANGED <<shows, processed_shows_data, max_seasons_found, shows_data_full,
                   overtaken, notPool>>

\* The with block waits for the running workers, get_show_details raises and
\* main logs "An error occurred while processing section": no sheet is written.
Propagate ==
    /\ pool_pc = "raising"
    /\ Running(futures) = {}
    /\ pool_pc' = "raised"
    /\ UNCHANGED <<shows, futures, processed_shows_data, max_seasons_found,
                   shows_data_full, overtaken, notPool>>

\* Every result is there: the loop over show_results and the return.
Collect ==
    /\ pool_pc = "map"
    /\ \A i \in DOMAIN futures :
          futures[i].state = "done" /\ futures[i].result.kind = "return"
    /\ LET show_results == [i \in DOMAIN futures |-> futures[i].result.value]
       IN  /\ processed_shows_data' =
                  [i \in DOMAIN show_results |-> Pop(show_results[i], "max_seasons")]
           /\ max_seasons_found' = MaxSeasonsOf(show_results)
    /\ pool_pc' = "returned"
    /\ UNCHANGED <<shows, futures, shows_data_full, overtaken, notPool>>

\* create_tv_shows_worksheet sorts the records it is given.
SortRows ==
    /\ pool_pc = "returned"
    /\ shows_data_full' =
           SortBy(processed_shows_data, sort_by_field_show(selected_fields))
    /\ pool_pc' = "sorted"
    /\ UNCHANGED <<shows, futures, processed_shows_data, max_seasons_found, overtaken,
                   notPool>>

NextPool ==
    \/ \E i \in DOMAIN futures : Start(i)
    \/ \E i \in DOMAIN futures : Finish(i)
    \/ Abort
    \/ Propagate
    \/ Collect
    \/ SortRows

SpecPool == InitPool /\ [][NextPool]_vars

\* The same under the scheduler: a worker that can take a show or finish one
\* does so in the end, as does the thread of get_show_details. Every request
\* of a worker returns or times out (timeout=TVMAZE_REQUEST_TIMEOUT), and the
\* retry wrapper gives up after TVMAZE_MAX_RETRIES retries.
SpecPoolLive == SpecPool /\ WF_vars(NextPool)

----------------------------------------------------------------------------
(* The API client on its own: _fetch_tvmaze_show_info_from_api for a show   *)
(* the catalog knows, applied to the episode list the catalog returns.      *)

GroupLists ==
    UNION {[1..n -> {NoSeason} \cup (0..MaxGroupSeason)] : n \in 0..MaxGroupList}

InitEpisodes ==
    /\ LookupIdle
    /\ ReportIdle
    /\ StoreIdle
    /\ RaceIdle
    /\ FieldsIdle
    /\ PoolIdle
    /\ \E episodes \in GroupLists :
          api_call = [episodes |-> episodes, result |-> None, done |-> FALSE]
    /\ retry_call = NoRetryCall
    /\ cache_call = NoCacheCall

\* The lookup request names the show, the episodes request returns the list.
FetchEpisodes ==
    /\ ~api_call.done
    /\ api_call' =
           [api_call EXCEPT
               !.result = _fetch_tvmaze_show_info_from_api(
                              [lookup |-> "Found", episodes_status |-> "Ok",
                               episodes |-> api_call.episodes]).value,
               !.done = TRUE]
    /\ UNCHANGED <<retry_call, cache_call, _persistent_tvmaze_cache, now, notCalls>>

NextEpisodes == FetchEpisodes

SpecEpisodes == InitEpisodes /\ [][NextEpisodes]_vars

----------------------------------------------------------------------------
(* The retry wrapper on its own: retry_on_failure() with its defaults around *)
(* a function whose successive calls raise or return as behaviour says.      *)

\* How the successive calls of the wrapped function end; a call beyond the
\* list returns.
Behaviours ==
    UNION {[1..n -> {"RequestException", "Exception", "return"}] :
              n \in 0..MaxWrappedCalls}

\* The wrapped function's call number n.
WrappedCall(behaviour, n) ==
    IF n <= Len(behaviour) /\ behaviour[n] # "return"
    THEN Raise(behaviour[n]) ELSE Return("v")

InitRetry ==
    /\ LookupIdle
    /\ ReportIdle
    /\ StoreIdle
    /\ RaceIdle
    /\ FieldsIdle
    /\ PoolIdle
    /\ api_call = NoApiCall
    /\ \E behaviour \in Behaviours :
          retry_call = [behaviour |-> behaviour, attempt |-> 0,
                        delay |-> TVMAZE_RETRY_DELAY, calls |-> 0, sleeps |-> <<>>,
                        pc |-> "loop", out |-> Return(None)]
    /\ cache_call = NoCacheCall

\* One pass of "for attempt in range(max_retries + 1)": the call, and what the
\* wrapper does with its end; "return None" once the range is used up.
RetryPass ==
    /\ retry_call.pc = "loop"
    /\ LET out == WrappedCall(retry_call.behaviour, retry_call.calls + 1)
           todo == wrapper(out, retry_call.attempt)
       IN  retry_call' =
               IF todo = "return"
               THEN [retry_call EXCEPT !.calls = @ + 1, !.pc = "returned", !.out = out]
               ELSE IF todo = "raise"
               THEN [retry_call EXCEPT !.calls = @ + 1, !.pc = "raised", !.out = out]
               ELSE IF retry_call.attempt + 1 <= TVMAZE_MAX_RETRIES
               THEN [retry_call EXCEPT !.calls = @ + 1,
                                       !.sleeps = Append(@, retry_call.delay),
                                       !.delay = @ * backoff_factor,
                                       !.attempt = @ + 1]
               ELSE [retry_call EXCEPT !.calls = @ + 1,
                                       !.sleeps = Append(@, retry_call.delay),
                                       !.delay = @ * backoff_factor,
                                       !.attempt = @ + 1,
                                       !.pc = "returned", !.out = Return(None)]
    /\ UNCHANGED <<api_call, cache_call, _persistent_tvmaze_cache, now, notCalls>>

NextRetry == RetryPass

SpecRetry == InitRetry /\ [][NextRetry]_vars

----------------------------------------------------------------------------
(* The cache functions on their own: get_from_cache and add_to_cache called *)
(* one after the other on a loaded cache, while time passes.                *)

\* get_from_cache(key): cache_call keeps the cache as it was, the time of the
\* call and what was returned.
CacheGet(key) ==
    /\ cache_call.count < MaxCacheOps
    /\ cache_call' = [op |-> "get", key |-> key, data |-> None,
                      before |-> _persistent_tvmaze_cache, at |-> now,
                      returned |-> get_from_cache(key),
                      count |-> cache_call.count + 1]
    /\ _persistent_tvmaze_cache' = CacheAfterGet(key)
    /\ UNCHANGED <<api_call, retry_call, now, notCalls>>

\* add_to_cache(key, data)
CacheAdd(key, data) ==
    /\ cache_call.count < MaxCacheOps
    /\ cache_call' = [op |-> "add", key |-> key, data |-> data,
                      before |-> _persistent_tvmaze_cache, at |-> now,
                      returned |-> None, count |-> cache_call.count + 1]
    /\ _persistent_tvmaze_cache' = add_to_cache(_persistent_tvmaze_cache, key, data)
    /\ UNCHANGED <<api_call, retry_call, now, notCalls>>

InitCacheOps ==
    /\ _persistent_tvmaze_cache \in LoadedCaches
    /\ now = 0
    /\ NoLookupYet
    /\ ReportIdle
    /\ RestIdle

NextCacheOps ==
    \/ \E key \in RaceKeys : CacheGet(key)
    \/ \E key \in RaceKeys, data \in {RaceInfo, ShowInfo(<<>>)} : CacheAdd(key, data)
    \/ Tick

SpecCacheOps == InitCacheOps /\ [][NextCacheOps]_vars

----------------------------------------------------------------------------
(* The report: _write_tv_show_row on one show of the sheet. *)

InitReport ==
    /\ show_info_full \in [tvmaze_info : TVMazeInfos, seasons_in_plex : PlexSeasons]
    \* the other shows of the sheet can only add columns
    /\ max_seasons_overall \in ShowMaxSeasons(show_info_full.tvmaze_info)..MaxSeason
    /\ \E has_specials \in BOOLEAN :
        /\ (0 \in DOMAIN show_info_full.seasons_in_plex) => has_specials
        /\ season_headers_list =
               _generate_tv_show_headers(has_specials, max_seasons_overall)
    /\ row = <<>>
    /\ LookupIdle
    /\ RestIdle

\* the series completion status cell
WriteSeriesStatus ==
    /\ row = <<>>
    /\ row' = <<_calculate_series_completion(show_info_full.tvmaze_info,
                                             show_info_full.seasons_in_plex)>>
    /\ UNCHANGED <<show_info_full, max_seasons_overall, season_headers_list, lookupVars, restVars>>

\* one iteration of the loop over season_headers_list
WriteSeasonCell ==
    /\ Len(row) >= 1
    /\ Len(row) <= Len(season_headers_list)
    /\ LET season_num == HeaderSeason(season_headers_list[Len(row)])
       IN  row' = Append(row, _calculate_season_cell(season_num,
                                  show_info_full.tvmaze_info,
                                  show_info_full.seasons_in_plex))
    /\ UNCHANGED <<show_info_full, max_seasons_overall, season_headers_list, lookupVars, restVars>>

NextReport == WriteSeriesStatus \/ WriteSeasonCell

SpecReport == InitReport /\ [][NextReport]_vars

----------------------------------------------------------------------------
(* Properties of the report (checked under SpecReport). *)

tvmaze_info_of_row == show_info_full.tvmaze_info
plex_seasons_of_row == show_info_full.seasons_in_plex

\* The row is only appended to, so a property of every cell is stated of the
\* cell written last.  SeriesJustWritten: the row holds the series cell alone.
SeriesJustWritten == Len(row) = 1

\* The index i of the season header whose cell row[i + 1] was written last
\* (the empty set before the first season cell).
JustWrittenSeason == IF Len(row) >= 2 THEN {Len(row) - 1} ELSE {}

SeasonOf(i) == HeaderSeason(season_headers_list[i])

\* The local episode count of a season; a season missing locally counts as 0.
LocalCount(s) ==
    IF s \in DOMAIN plex_seasons_of_row
    THEN plex_seasons_of_row[s].episodes_in_plex ELSE 0

HasRemoteEntry(s) ==
    tvmaze_info_of_row # None /\ s \in DOMAIN tvmaze_info_of_row.seasons

RemoteCount(s) == tvmaze_info_of_row.seasons[s].total_episodes

\* The regular seasons the remote catalog knows.
RemoteRegularSeasons == {s \in DOMAIN tvmaze_info_of_row.seasons : s > 0}

\* The regular remote seasons that are complete locally.
CompleteSeasons ==
    {s \in RemoteRegularSeasons : LocalCount(s) >= RemoteCount(s) /\ RemoteCount(s) > 0}

\* C1: a season cell whose season has a remote entry with
\* remote_count > 0 has the text "local_count/remote_count" and is green when
\* local_count >= remote_count, red when 0 < local_count < remote_count, and
\* without fill when local_count = 0.
C1_SeasonCellWithRemoteCount ==
    \A i \in JustWrittenSeason :
        LET s == SeasonOf(i)
        IN  (HasRemoteEntry(s) /\ RemoteCount(s) > 0) =>
                /\ row[i + 1].text = ToStr(LocalCount(s)) \o "/" \o ToStr(RemoteCount(s))
                /\ (LocalCount(s) >= RemoteCount(s)) => row[i + 1].fill = "green"
                /\ (0 < LocalCount(s) /\ LocalCount(s) < RemoteCount(s))
                       => row[i + 1].fill = "red"
                /\ (LocalCount(s) = 0) => row[i + 1].fill = NoFill

\* C1 witness: a partial season (0 < local < remote) has had its cell written.
C1_Witness ==
    \E i \in JustWrittenSeason :
        /\ HasRemoteEntry(SeasonOf(i))
        /\ 0 < LocalCount(SeasonOf(i))
        /\ LocalCount(SeasonOf(i)) < RemoteCount(SeasonOf(i))
        /\ row[i + 1].fill = "red"

\* C2: with remote info, the series cell reads "numerator/denominator", the
\* numerator counting the regular remote seasons with local_count >=
\* remote_count > 0 and the denominator the regular remote seasons; it is gray
\* when the denominator is 0, green when numerator = denominator > 0 and red
\* when 0 < numerator < denominator.
C2_SeriesCellWithRemoteInfo ==
    (SeriesJustWritten /\ tvmaze_info_of_row # None) =>
        LET numerator == Cardinality(CompleteSeasons)
            denominator == Cardinality(RemoteRegularSeasons)
        IN  /\ row[1].text = ToStr(numerator) \o "/" \o ToStr(denominator)
            /\ (denominator = 0) => row[1].fill = "gray"
            /\ (numerator = denominator /\ denominator > 0) => row[1].fill = "green"
            /\ (0 < numerator /\ numerator < denominator) => row[1].fill = "red"

\* C2 witness: a series cell written for a show with two regular remote seasons,
\* both held locally, of which exactly one is complete.
C2_Witness ==
    /\ SeriesJustWritten
    /\ tvmaze_info_of_row # None
    /\ Cardinality(RemoteRegularSeasons) = 2
    /\ Cardinality(CompleteSeasons) = 1
    /\ RemoteRegularSeasons \subseteq DOMAIN plex_seasons_of_row
    /\ row[1].fill = "red"

C4_SeriesCellNoRemoteInfo ==
    (SeriesJustWritten /\ tvmaze_info_of_row = None) =>
        LET n == Cardinality({s \in DOMAIN plex_seasons_of_row : s > 0})
        IN  /\ row[1].text = ToStr(n) \o "/?"
            /\ (row[1].fill = "yellow") <=> (n > 0)
            /\ (n = 0) => row[1].fill = NoFill
            /\ row[1].fill # "green"

\* C4 witness: the series cell of a show without remote info that holds
\* specials and one regular season locally.
C4_Witness ==
    /\ SeriesJustWritten
    /\ tvmaze_info_of_row = None
    /\ 0 \in DOMAIN plex_seasons_of_row
    /\ Cardinality({s \in DOMAIN plex_seasons_of_row : s > 0}) = 1

\* C5 as stated: with remote info, a written season cell whose season has no
\* remote entry reads "local_count/?" and is yellow, whatever the local count.
C5_Original ==
    \A i \in JustWrittenSeason :
        LET s == SeasonOf(i)
        IN  (tvmaze_info_of_row # None /\ ~HasRemoteEntry(s)) =>
                /\ row[i + 1].text = ToStr(LocalCount(s)) \o "/?"
                /\ row[i + 1].fill = "yellow"

\* C5 as amended: such a cell reads "local_count/?" and is yellow when
\* local_count > 0; when local_count = 0 its text is empty and it is gray, or
\* without fill if the remote seasons mapping is empty and the season number
\* does not exceed the largest local season number; it is never green.
C5_SeasonCellNoRemoteEntry ==
    \A i \in JustWrittenSeason :
        LET s == SeasonOf(i)
        IN  (tvmaze_info_of_row # None /\ ~HasRemoteEntry(s)) =>
                /\ (LocalCount(s) > 0) =>
                       /\ row[i + 1].text = ToStr(LocalCount(s)) \o "/?"
                       /\ row[i + 1].fill = "yellow"
                /\ (LocalCount(s) = 0) =>
                       /\ row[i + 1].text = ""
                       /\ row[i + 1].fill =
                              IF /\ tvmaze_info_of_row.seasons = <<>>
                                 /\ \E t \in DOMAIN plex_seasons_of_row : s <= t
                              THEN NoFill ELSE "gray"
                /\ row[i + 1].fill # "green"

\* C5 witness: a written cell of a season without remote entry and without
\* local episodes, for a show whose remote info lists other seasons.
C5_Witness ==
    \E i \in JustWrittenSeason :
        /\ tvmaze_info_of_row # None
        /\ tvmaze_info_of_row.seasons # <<>>
        /\ ~HasRemoteEntry(SeasonOf(i))
        /\ LocalCount(SeasonOf(i)) = 0

\* A dict with its season-0 entry removed, or set to v.
WithoutSeason0(d) == [s \in DOMAIN d \ {0} |-> d[s]]
WithSeason0(d, v) == [s \in DOMAIN d \cup {0} |-> IF s = 0 THEN v ELSE d[s]]

\* The local mappings that differ from the row's at most in season 0.
Season0VariantsOfPlex ==
    {WithoutSeason0(plex_seasons_of_row)} \cup
    {WithSeason0(plex_seasons_of_row, [episodes_in_plex |-> n, season_number |-> 0]) :
        n \in 0..MaxEpisodes}

\* The remote infos that differ from the row's at most in season 0.
Season0VariantsOfInfo ==
    IF tvmaze_info_of_row = None THEN {None}
    ELSE {ShowInfo(WithoutSeason0(tvmaze_info_of_row.seasons))} \cup
         {ShowInfo(WithSeason0(tvmaze_info_of_row.seasons, [total_episodes |-> n])) :
              n \in 1..MaxEpisodes}

\* C6: the series cell, once written, is the one _calculate_series_completion returns for
\* every local and remote mapping that differs from the show's only in the
\* season-0 entry (added, removed or changed), while the specials column, when
\* the show holds specials, is the first season column and its cell is computed
\* from the season-0 counts.
C6_Season0Excluded ==
    /\ SeriesJustWritten =>
           \A info \in Season0VariantsOfInfo : \A plex \in Season0VariantsOfPlex :
               _calculate_series_completion(info, plex) = row[1]
    /\ (0 \in DOMAIN plex_seasons_of_row) => season_headers_list[1] = "S00"
    /\ (/\ Len(row) = 2
        /\ season_headers_list[1] = "S00"
        /\ HasRemoteEntry(0)) =>
           row[2].text = ToStr(LocalCount(0)) \o "/" \o ToStr(RemoteCount(0))

\* C6 witness: a show with complete specials and one incomplete regular season
\* has its series cell and its specials cell written.
C6_Witness ==
    /\ Len(row) = 2
    /\ season_headers_list[1] = "S00"
    /\ HasRemoteEntry(0)
    /\ RemoteCount(0) > 0
    /\ LocalCount(0) >= RemoteCount(0)
    /\ row[2].fill = "green"
    /\ Cardinality(RemoteRegularSeasons) = 1
    /\ row[1].text = "0/1"

----------------------------------------------------------------------------
(* The lookup path: what process_single_show and the API client guarantee. *)

\* The lookups of the show in hand, by kind.
IdCalls == {i \in 1..Len(calls) : calls[i].is_imdb_id}
TitleCalls == {i \in 1..Len(calls) : ~calls[i].is_imdb_id}

\* This step calls get_tvmaze_show_info.
CallsById == Len(calls') = Len(calls) + 1 /\ calls'[Len(calls')].is_imdb_id
CallsByTitle == Len(calls') = Len(calls) + 1 /\ ~calls'[Len(calls')].is_imdb_id

\* The info without seasons: the show exists, its catalog lists no episode.
EmptyInfo == [total_seasons |-> 0, seasons |-> <<>>]

\* C7: in processing one show the lookup by IMDB id is the first lookup made and
\* is made once; a lookup by title is made at most once, and only when the show
\* has no IMDB id or the lookup by id returned None; after a lookup by id that
\* returned an info, the info without seasons included, the show is finished
\* with that info and no lookup by title.
C7_IdBeforeTitle ==
    [][ /\ CallsById => (calls = <<>> /\ ImdbId(show_obj) # NoStr)
        /\ CallsByTitle =>
              /\ TitleCalls = {}
              /\ \/ ImdbId(show_obj) = NoStr /\ calls = <<>>
                 \/ /\ ImdbId(show_obj) # NoStr
                    /\ Len(calls) = 1
                    /\ calls[1].is_imdb_id
                    /\ tvmaze_info = None
        /\ (pc = "title" /\ IdCalls # {} /\ tvmaze_info # None) =>
              /\ pc' \in {"title", "finish"}
              /\ calls' = calls
              /\ tvmaze_info' = tvmaze_info
      ]_vars

\* C7 witness: a show whose lookup by id returned the info without seasons is
\* finished after that one lookup.
C7_Witness ==
    /\ pc = "finish"
    /\ Len(calls) = 1
    /\ calls[1].is_imdb_id
    /\ tvmaze_info = EmptyInfo
    /\ Strip(SearchTitle(show_obj)) # ""

\* The attempts of the fetch in hand that ended in a network error.
NetworkErrors == {"network error on lookup", "network error on episodes"}

\* The waits before the retries: 1s, 2s, 4s.
RECURSIVE BackoffWaits(_, _)
BackoffWaits(n, delay) ==
    IF n = 0 THEN <<>> ELSE <<delay>> \o BackoffWaits(n - 1, delay * backoff_factor)

\* C8, as stated: a fetch that has ended made retries after network errors
\* only, waited 1s, 2s, 4s before them, and ended on a network error only at
\* its fourth attempt; otherwise it ended with what its last attempt found.
C8_Original ==
    fetch_log.done =>
        LET n == Len(fetch_log.modes)
        IN  /\ n \in 1..(TVMAZE_MAX_RETRIES + 1)
            /\ \A i \in 1..(n - 1) : fetch_log.modes[i] \in NetworkErrors
            /\ fetch_log.sleeps = BackoffWaits(n - 1, TVMAZE_RETRY_DELAY)
            /\ (fetch_log.modes[n] \in NetworkErrors) => n = TVMAZE_MAX_RETRIES + 1

\* C8, the failing case: a fetch ended with None after one attempt that hit a
\* network error, and without any wait.
C8_Witness ==
    /\ fetch_log.done
    /\ fetch_log.modes = <<"network error on lookup">>
    /\ fetch_log.sleeps = <<>>
    /\ fetch_log.result = None
    /\ ~fetch_log.raised

\* C9: no fetch ends with an exception, and a fetch that ended on a failure
\* mode (not found, network error on either request, malformed payload) gave
\* None to its caller, which went on with the show.
C9_ClientNeverRaises ==
    /\ ~fetch_log.raised
    /\ fetch_log.done =>
          LET n == Len(fetch_log.modes)
          IN  /\ n >= 1
              /\ (fetch_log.modes[n] # "ok") => fetch_log.result = None
              /\ (fetch_log.modes[n] = "ok") => fetch_log.result # None

\* C9 witness: a fetch ended on a network error of the episode-list request.
C9_Witness ==
    /\ fetch_log.done
    /\ fetch_log.modes[Len(fetch_log.modes)] = "network error on episodes"
    /\ fetch_log.result = None
    /\ pc \in {"title", "finish"}

\* The keys whose latest fetch returned no later than the maximum age ago.
ResolvedInWindow ==
    {k \in DOMAIN resolved : AgeDays(resolved[k]) <= TVMAZE_CACHE_MAX_AGE_DAYS}

\* C10, as stated: whatever a fetch returned is in the cache under its key, and
\* within the expiry window no fetch is made for that key again.
C10_Original ==
    \A k \in ResolvedInWindow :
        /\ k \in DOMAIN _persistent_tvmaze_cache
        /\ ~(pc = "fetch" /\ fetch_log.key = k)

\* C10, the failing case: a key whose fetch returned None within the window is
\* not in the cache and is being fetched again.
C10_Witness ==
    \E k \in ResolvedInWindow :
        /\ k \notin DOMAIN _persistent_tvmaze_cache
        /\ pc = "fetch"
        /\ fetch_log.key = k

\* The lookup in hand: the latest call of get_tvmaze_show_info.
KeyInHand(c) == CacheKey(c[Len(c)].search_term, c[Len(c)].is_imdb_id)

\* C11, as stated: right after get_tvmaze_show_info has put the result of a
\* fetch under its key (the age of the entry is 0), the key is in the cache and
\* get_from_cache returns that result, be it an info or None.
C11_Original ==
    (/\ fetch_log.done
     /\ ~fetch_log.raised
     /\ fetch_log.key \in DOMAIN resolved
     /\ resolved[fetch_log.key] = now) =>
        /\ fetch_log.key \in DOMAIN _persistent_tvmaze_cache
        /\ _persistent_tvmaze_cache[fetch_log.key].data = fetch_log.result
        /\ get_from_cache(fetch_log.key) = fetch_log.result

\* C11, the failing case: the fetch returned None, nothing was put, and the
\* read that follows at once finds no entry.
C11_Witness ==
    /\ fetch_log.done
    /\ ~fetch_log.raised
    /\ fetch_log.result = None
    /\ fetch_log.key \in DOMAIN resolved
    /\ resolved[fetch_log.key] = now
    /\ fetch_log.key \notin DOMAIN _persistent_tvmaze_cache
    /\ get_from_cache(fetch_log.key) = None

\* The entries older than the maximum age, fractions of a day counted.
OlderThanMaxAge ==
    {k \in DOMAIN _persistent_tvmaze_cache :
        now - _persistent_tvmaze_cache[k].timestamp >
            TVMAZE_CACHE_MAX_AGE_DAYS * TicksPerDay}

\* C12, as stated: an entry older than 30 days, by however small a fraction of
\* a day, reads as a miss and is evicted by the read.
C12_Original ==
    \A k \in OlderThanMaxAge :
        /\ get_from_cache(k) = None
        /\ k \notin DOMAIN CacheAfterGet(k)

\* C12, the failing case: a lookup has just been answered from an entry that
\* is 30 days and a fraction old, and the entry stays.
C12_Witness ==
    /\ calls # <<>>
    /\ pc \in {"title", "finish"}
    /\ KeyInHand(calls) \in OlderThanMaxAge
    /\ fetch_log.key # KeyInHand(calls)
    /\ tvmaze_info = _persistent_tvmaze_cache[KeyInHand(calls)].data

\* The search terms of the library, and the keys of the two kinds of lookup.
SearchTerms ==
    {ImdbId(show) : show \in Shows} \cup {SearchTitle(show) : show \in Shows}
IdKeys == {CacheKey(X, TRUE) : X \in SearchTerms}
TitleKeys == {CacheKey(Y, FALSE) : Y \in SearchTerms}

\* The keys whose entry this step stores, replaces or evicts.
KeysTouched ==
    {k \in DOMAIN _persistent_tvmaze_cache \cup DOMAIN _persistent_tvmaze_cache' :
        \/ k \notin DOMAIN _persistent_tvmaze_cache
        \/ k \notin DOMAIN _persistent_tvmaze_cache'
        \/ _persistent_tvmaze_cache[k] # _persistent_tvmaze_cache'[k]}

\* C13: no key of a lookup by id is the key of a lookup by title, the same
\* search term included; a step of a lookup stores, replaces or evicts no entry
\* but the one under its own key, and a lookup answered from the cache is
\* answered from the entry under its own key.
C13_KindsNeverCollide ==
    [][ /\ \A X \in SearchTerms : \A Y \in SearchTerms :
              CacheKey(X, TRUE) # CacheKey(Y, FALSE)
        /\ IdKeys \cap TitleKeys = {}
        /\ KeysTouched # {} =>
              /\ calls' # <<>>
              /\ KeysTouched = {KeyInHand(calls')}
              /\ KeyInHand(calls') \in
                    (IF calls'[Len(calls')].is_imdb_id THEN IdKeys ELSE TitleKeys)
        /\ (Len(calls') = Len(calls) + 1 /\ pc' # "fetch") =>
              /\ KeyInHand(calls') \in DOMAIN _persistent_tvmaze_cache
              /\ tvmaze_info' = _persistent_tvmaze_cache[KeyInHand(calls')].data
      ]_vars

\* C13 witness: the id "tt1" and the title "tt1" each have their entry, with
\* different infos, the one of the id stored last and the other left as it was.
C13_Witness ==
    /\ CacheKey("tt1", TRUE) \in DOMAIN _persistent_tvmaze_cache
    /\ CacheKey("tt1", FALSE) \in DOMAIN _persistent_tvmaze_cache
    /\ _persistent_tvmaze_cache[CacheKey("tt1", TRUE)].data #
           _persistent_tvmaze_cache[CacheKey("tt1", FALSE)].data
    /\ fetch_log.done
    /\ fetch_log.key = CacheKey("tt1", TRUE)
    /\ _persistent_tvmaze_cache[CacheKey("tt1", TRUE)].data = fetch_log.result

----------------------------------------------------------------------------
(* The persisted store: what load_tvmaze_cache and the cache guarantee. *)

\* The store gives no cache: no file, a file that cannot be read or decoded,
\* no dict, or a dict without 'version' or without 'entries'.
Unusable(file) ==
    \/ file.kind # "dict"
    \/ ~file.has_version
    \/ ~file.has_entries

\* The entries of a usable store that have their timestamp and their data,
\* and those of them whose age in days, as the code counts them, is over the
\* maximum age.
WellFormed(file) ==
    {key \in DOMAIN file.entries :
        file.entries[key].has_timestamp /\ file.entries[key].has_data}
Expired(file) ==
    {key \in WellFormed(file) :
        AgeDays(file.entries[key].timestamp) > TVMAZE_CACHE_MAX_AGE_DAYS}

C15_Original ==
    Cardinality(DOMAIN _persistent_tvmaze_cache) <= TVMAZE_CACHE_SIZE

\* C15, the failing case: after the lookups of 257 titles the cache holds all
\* 257, the first one included.
C15_Witness ==
    /\ lookups_done = TVMAZE_CACHE_SIZE + 1
    /\ Cardinality(DOMAIN _persistent_tvmaze_cache) > TVMAZE_CACHE_SIZE
    /\ CacheKey("1", FALSE) \in DOMAIN _persistent_tvmaze_cache

\* C16, as stated: whatever the interleaving, no call of a thread raises, and
\* a call answered from the cache returns an info that was stored under its key.
C16_Original ==
    \A t \in Threads :
        /\ threads[t].pc # "raised"
        /\ threads[t].hit => threads[t].result \in {ShowInfo(<<>>), RaceInfo}

\* C16, the failing case: two threads read the same expired key; one has
\* evicted the entry and gone on to its fetch, the other got a KeyError.
C16_Witness ==
    \E t \in Threads : \E u \in Threads :
        /\ t # u
        /\ threads[t].key = threads[u].key
        /\ threads[t].pc = "raised"
        /\ threads[t].entry # NoEntry
        /\ threads[u].pc \in {"fetch", "done"}
        /\ ~threads[u].hit
        /\ threads[u].entry = threads[t].entry

\* C29, as stated: for every key, when the first call of the API client for
\* the key returned an info, the client was called at most once for the key,
\* however the threads interleave.
C29_Original ==
    \A key \in RaceKeys :
        (\E t \in Fetched(key) :
             threads[t].fetch_no = 1 /\ threads[t].result # None)
            => Cardinality(Fetched(key)) <= 1

\* C29, the failing case: two threads on the same key both found it missing
\* before either had stored a result; the first fetch returned an info and
\* stored it, and the second thread called the API all the same.
C29_Witness ==
    \E t \in Threads : \E u \in Threads :
        /\ threads[t].key = threads[u].key
        /\ threads[t].pc = "done" /\ threads[u].pc = "done"
        /\ threads[t].fetch_no = 1 /\ threads[t].result = RaceInfo
        /\ threads[u].fetch_no = 2
        /\ threads[u].entry = NoEntry

----------------------------------------------------------------------------
(* Field extraction: what process_movie and process_show_metadata return. *)

Registry == IF plex_item.kind = "movie" THEN MovieRegistry ELSE ShowRegistry
SelectedNames == {selected_fields[i] : i \in 1..Len(selected_fields)}

\* What the extractor of a registered field does on the item in hand.
ExtractorOutcome(field_name) ==
    Processor(field_name, plex_item,
              IF plex_item.kind = "movie" THEN MediaOf(plex_item, selected_fields)
              ELSE "<no media>")

----------------------------------------------------------------------------
(* Claims about the worker pool. *)

\* field_name is among the selected fields.
Selected(field_name) ==
    \E i \in 1..Len(selected_fields) : selected_fields[i] = field_name

\* Something raises while the show is processed: in the extraction of a
\* selected field, in the remote lookup, in the cache or in the enumeration of
\* the seasons; a title that is missing or cannot be read raises at the first
\* statement of process_single_show.
ShowFails(show) ==
    \/ show.fault # "none"
    \/ show.title \in {Missing, Raises}
    \/ Selected("Studio") /\ show.studio = Raises

FailingShows == {i \in DOMAIN shows : ShowFails(shows[i])}

\* The complete record of a show and the degraded one, as get_show_details
\* returns them.
CompleteRecord(show) ==
    [seasons_in_plex |-> show.seasons, tvmaze_info |-> show.tvmaze]
        @@ process_show_metadata(show, selected_fields)

DegradedRecord(show) ==
    [Title |-> show.title, seasons_in_plex |-> <<>>, tvmaze_info |-> None]

\* C18 as stated: when the processing of one show of the batch raises, the batch
\* is not aborted, every other show has its complete record and the failing
\* show has the degraded record (title, no local seasons, remote info None).
C18_Original ==
    Cardinality(FailingShows) = 1 =>
        /\ pool_pc \notin {"raising", "raised"}
        /\ pool_pc \in {"returned", "sorted"} =>
              \A i \in DOMAIN shows :
                  processed_shows_data[i] =
                      IF i \in FailingShows THEN DegradedRecord(shows[i])
                      ELSE CompleteRecord(shows[i])

\* C18 witness: get_show_details has raised over one show whose title is
\* missing, after another show of the batch was processed to its complete
\* record, which is lost with the section.
C18_Witness ==
    /\ pool_pc = "raised"
    /\ Cardinality(FailingShows) = 1
    /\ \E i \in DOMAIN shows :
          /\ shows[i].title = Missing
          /\ futures[i].result = Raise("AttributeError")
    /\ \E j \in DOMAIN shows :
          /\ j \notin FailingShows
          /\ futures[j].state = "done"
          /\ Pop(futures[j].result.value, "max_seasons") = CompleteRecord(shows[j])

\* The record get_show_details holds for a show, whenever it was made.
RecordOf(show) ==
    Pop(process_single_show(show, selected_fields).value, "max_seasons")

\* The configured sort field and the key of a row, compared without case.
ConfiguredSortField == IF Selected("Title") THEN "Title" ELSE selected_fields[1]

KeyWithoutCase(x) == Lower(Get(x, ConfiguredSortField, ""))

Count(seq, x) == Cardinality({i \in DOMAIN seq : seq[i] = x})

\* C19: get_show_details returns the records in the order of the shows it was
\* given, whatever order the workers started and finished in; the rows of the
\* sheet are these records ordered by the configured sort field (Title if
\* selected, otherwise the first selected field) compared case-insensitively,
\* rows of equal key keeping the order of the shows.
C19_DeterministicOrder ==
    /\ pool_pc \in {"returned", "sorted"} =>
          processed_shows_data = [i \in 1..Len(shows) |-> RecordOf(shows[i])]
    /\ pool_pc = "sorted" =>
          /\ Len(shows_data_full) = Len(processed_shows_data)
          /\ \A i \in DOMAIN processed_shows_data :
                Count(shows_data_full, processed_shows_data[i]) =
                    Count(processed_shows_data, processed_shows_data[i])
          /\ \A i, j \in DOMAIN shows_data_full :
                i < j => StrLeq(KeyWithoutCase(shows_data_full[i]),
                                KeyWithoutCase(shows_data_full[j]))
          /\ \A i \in DOMAIN processed_shows_data :
                LET k == KeyWithoutCase(processed_shows_data[i])
                IN  SelectSeq(shows_data_full, LAMBDA x : KeyWithoutCase(x) = k) =
                        SelectSeq(processed_shows_data, LAMBDA x : KeyWithoutCase(x) = k)

\* C19 witness: a show finished before one that precedes it in the batch, and
\* the sorted sheet puts a row before one whose key as written is smaller
\* ("a" before "B").
C19_Witness ==
    /\ pool_pc = "sorted"
    /\ overtaken
    /\ \E i, j \in DOMAIN shows_data_full :
          /\ i < j
          /\ StrRank(Get(shows_data_full[i], ConfiguredSortField, "")) >
                 StrRank(Get(shows_data_full[j], ConfiguredSortField, ""))

\* C20: at every moment the number of shows being processed is at most
\* min(10, number of shows in the batch).
C20_BoundedConcurrency ==
    /\ Cardinality(Running(futures)) <= MAX_WORKER_THREADS
    /\ Cardinality(Running(futures)) <= Len(shows)

\* C20 witness: ten shows are being processed while an eleventh waits.
C20_Witness ==
    /\ Cardinality(Running(futures)) = MAX_WORKER_THREADS
    /\ \E i \in DOMAIN futures : futures[i].state = "queued"

\* The largest number of a set of naturals, 0 for the empty set.
SetMax(S) == IF S = {} THEN 0 ELSE CHOOSE m \in S : \A x \in S : x <= m

\* total_seasons of the returned shows whose remote info was resolved.
ResolvedTotals ==
    {processed_shows_data[i].tvmaze_info.total_seasons :
        i \in {j \in DOMAIN processed_shows_data :
                  processed_shows_data[j].tvmaze_info # None}}

\* C21: whatever the interleaving of the workers, the maximum get_show_details
\* returns is the largest total_seasons over the shows whose remote info was
\* resolved, 0 if none was: no show's contribution is lost.
C21_NoLostUpdate ==
    pool_pc \in {"returned", "sorted"} => max_seasons_found = SetMax(ResolvedTotals)

\* C21 witness: the show with the largest total_seasons is not the last of the
\* batch and was overtaken by a later show with a smaller one; its 2 is the
\* maximum returned.
C21_Witness ==
    /\ pool_pc = "returned"
    /\ overtaken
    /\ Len(processed_shows_data) = 2
    /\ processed_shows_data[1].tvmaze_info = TwoSeasonInfo
    /\ processed_shows_data[2].tvmaze_info = OneSeasonInfo
    /\ max_seasons_found = 2

\* The regular season numbers Plex holds for the returned shows.
LocalRegularSeasons ==
    UNION {DOMAIN processed_shows_data[i].seasons_in_plex \ {0} :
              i \in DOMAIN processed_shows_data}

\* C28 as stated: the maximum get_show_details returns is at least every
\* regular season number of every returned show's seasons_in_plex, the shows
\* without remote info included, so each local season has its column.
C28_Original ==
    pool_pc \in {"returned", "sorted"} =>
        \A season_num \in LocalRegularSeasons : season_num <= max_seasons_found

\* C28 witness: a section of one show without remote info that holds season 1
\* in Plex is returned with the maximum 0: the sheet gets no column S01.
C28_Witness ==
    /\ pool_pc = "sorted"
    /\ Len(shows_data_full) = 1
    /\ shows_data_full[1].tvmaze_info = None
    /\ 1 \in DOMAIN shows_data_full[1].seasons_in_plex
    /\ max_seasons_found = 0
    /\ _generate_tv_show_headers(FALSE, max_seasons_found) = <<>>

----------------------------------------------------------------------------
(* Claims about the API client, the retry wrapper and the cache on their own. *)

\* The season numbers occurring in the episode list of the call.
SeasonsListed ==
    {api_call.episodes[i] : i \in DOMAIN api_call.episodes} \ {NoSeason}

LeadingFailures ==
    LET b == retry_call.behaviour
    IN  CHOOSE k \in 0..Len(b) :
            /\ \A i \in 1..k : b[i] = "RequestException"
            /\ k = Len(b) \/ b[k + 1] # "RequestException"

AfterFailures ==
    IF LeadingFailures < Len(retry_call.behaviour)
    THEN retry_call.behaviour[LeadingFailures + 1] ELSE "return"

\* C24: around a function that raises a RequestException on each of its first k
\* calls and then returns v, the wrapper makes k+1 calls and returns v when
\* k <= 3, sleeping 1, 2, 4 seconds before the 1st, 2nd, 3rd retry; when k >= 4
\* it makes 4 calls and re-raises; an exception of another kind is re-raised
\* after one call and no sleep.
C24_RetryPolicy ==
    retry_call.pc \in {"returned", "raised"} =>
        /\ (AfterFailures = "return" /\ LeadingFailures <= 3) =>
              /\ retry_call.calls = LeadingFailures + 1
              /\ retry_call.pc = "returned"
              /\ retry_call.out = Return("v")
              /\ retry_call.sleeps = SubSeq(<<1, 2, 4>>, 1, LeadingFailures)
        /\ LeadingFailures >= 4 =>
              /\ retry_call.calls = 4
              /\ retry_call.pc = "raised"
              /\ retry_call.out = Raise("RequestException")
              /\ retry_call.sleeps = <<1, 2, 4>>
        /\ (LeadingFailures = 0 /\ AfterFailures = "Exception") =>
              /\ retry_call.calls = 1
              /\ retry_call.pc = "raised"
              /\ retry_call.out = Raise("Exception")
              /\ retry_call.sleeps = <<>>

\* C24 witness: five failing calls in a row; the wrapper has given up after
\* the fourth, having slept 1, 2 and 4 seconds.
C24_Witness ==
    /\ retry_call.pc = "raised"
    /\ LeadingFailures = 5
    /\ retry_call.calls = 4
    /\ retry_call.sleeps = <<1, 2, 4>>

\* The entry the latest call found under its key is older than 30 days at the
\* time of the call, fractions of a day counted.
FoundExpired ==
    /\ cache_call.key \in DOMAIN cache_call.before
    /\ cache_call.at - cache_call.before[cache_call.key].timestamp >
           TVMAZE_CACHE_MAX_AGE_DAYS * TicksPerDay

\* The same by get_from_cache's own test, in whole days.
FoundExpiredInWholeDays ==
    /\ cache_call.key \in DOMAIN cache_call.before
    /\ (cache_call.at - cache_call.before[cache_call.key].timestamp) \div TicksPerDay >
           TVMAZE_CACHE_MAX_AGE_DAYS

\* The cache after the latest call, given whether a get found its key expired.
FrameHolds(expired) ==
    /\ (cache_call.op = "get" /\ ~expired) =>
          _persistent_tvmaze_cache = cache_call.before
    /\ (cache_call.op = "get" /\ expired) =>
          _persistent_tvmaze_cache =
              [k \in DOMAIN cache_call.before \ {cache_call.key} |-> cache_call.before[k]]
    /\ cache_call.op = "add" =>
          _persistent_tvmaze_cache =
              [k \in DOMAIN cache_call.before \cup {cache_call.key} |->
                  IF k = cache_call.key
                  THEN [timestamp |-> cache_call.at, data |-> cache_call.data]
                  ELSE cache_call.before[k]]

\* C30 as stated: get_from_cache on an absent or unexpired key leaves the whole
\* cache unchanged, on an expired key (one created more than 30 days before)
\* it removes exactly that key; add_to_cache(key, v) sets that key's entry to
\* data v with the timestamp now and leaves every other entry unchanged.
C30_Original == FrameHolds(FoundExpired)

\* The frame with "expired" read as get_from_cache computes it.
FrameInWholeDays == FrameHolds(FoundExpiredInWholeDays)

\* C30 witness: get_from_cache on an entry created 30 days and a fraction
\* before returns its data and leaves it in the cache.
C30_Witness ==
    /\ cache_call.op = "get"
    /\ FoundExpired
    /\ cache_call.returned # None
    /\ _persistent_tvmaze_cache = cache_call.before

----------------------------------------------------------------------------
(* The series cell against the season cells. *)

\* The regular remote seasons whose cell _calculate_season_cell fills green.
GreenRegularSeasons ==
    {s_num \in RemoteRegularSeasons :
        _calculate_season_cell(s_num, show_info_full.tvmaze_info,
                               show_info_full.seasons_in_plex).fill
            = STYLES_fills("green")}

\* C27: for a show with TVMaze info, the series cell is green exactly when
\* TVMaze lists a regular season and the cell of every regular season it
\* lists is green; the cell reads "c/t" with c the number of those green
\* seasons and t the number of regular seasons, so c never exceeds t.
C27_SeriesAgreesWithSeasons ==
    (Len(row) >= 1 /\ show_info_full.tvmaze_info # None) =>
        /\ (row[1].fill = STYLES_fills("green")) <=>
               (RemoteRegularSeasons # {}
                    /\ GreenRegularSeasons = RemoteRegularSeasons)
        /\ row[1].text = ToStr(Cardinality(GreenRegularSeasons)) \o "/"
                             \o ToStr(Cardinality(RemoteRegularSeasons))
        /\ Cardinality(GreenRegularSeasons) <= Cardinality(RemoteRegularSeasons)

\* C27, the case: a series cell written green for a show with two regular
\* seasons, one of them holding more episodes in Plex than TVMaze lists.
C27_Witness ==
    /\ Len(row) >= 1
    /\ show_info_full.tvmaze_info # None
    /\ row[1].fill = STYLES_fills("green")
    /\ Cardinality(RemoteRegularSeasons) = 2
    /\ \E s_num \in RemoteRegularSeasons :
          show_info_full.seasons_in_plex[s_num].episodes_in_plex
              > show_info_full.tvmaze_info.seasons[s_num].total_episodes

----------------------------------------------------------------------------
(* Termination of get_show_details. *)

\* C25, as stated: get_show_details returns in the end, with a record for
\* every show of the batch, and no show is cancelled on the way.
C25_Original ==
    <>(/\ pool_pc = "returned"
       /\ Len(processed_shows_data) = Len(shows)
       /\ \A i \in DOMAIN futures : futures[i].state = "done")

\* C25, the failing case: get_show_details has raised, and a show of the
\* batch was cancelled before any worker took it.
C25_Witness ==
    /\ pool_pc = "raised"
    /\ \E i \in DOMAIN futures : futures[i].state = "cancelled"
    /\ processed_shows_data = <<>>

----------------------------------------------------------------------------
(* Claims about when the cache file is read and written. *)

\* C23: the cache file is touched only at the two ends of a run. The cache
\* is loaded from the file once, before the first lookup; a lookup leaves
\* the file alone; the file changes only in save_tvmaze_cache, which is the
\* one way out of a run and after which there is no lookup; and what a save
\* that gets through writes is every entry of the cache, those loaded from
\* the old file as well as those added in this run.
C23_FileTouchedAtEnds ==
    [][/\ (store_pc = "start" /\ store_pc' = "run") =>
              /\ lookups_done = 0
              /\ _persistent_tvmaze_cache' = load_tvmaze_cache(cache_file).value
              /\ cache_file' = cache_file
       /\ lookups_done' # lookups_done =>
              /\ store_pc = "run" /\ store_pc' = "run"
              /\ cache_file' = cache_file
       /\ cache_file' # cache_file =>
              store_pc = "run" /\ store_pc' \in {"saved", "killed"}
       /\ (store_pc = "run" /\ store_pc' # "run") =>
              /\ store_pc' \in {"saved", "killed"}
              /\ _persistent_tvmaze_cache' = _persistent_tvmaze_cache
              /\ \/ cache_file' = cache_file
                 \/ cache_file'.kind = "undecodable"
                 \/ /\ cache_file'.kind = "dict"
                    /\ cache_file'.has_version /\ cache_file'.has_entries
                    /\ DOMAIN cache_file'.entries = DOMAIN _persistent_tvmaze_cache
                    /\ \A key \in DOMAIN _persistent_tvmaze_cache :
                          /\ cache_file'.entries[key].timestamp
                                 = _persistent_tvmaze_cache[key].timestamp
                          /\ cache_file'.entries[key].data
                                 = _persistent_tvmaze_cache[key].data
       /\ store_pc \in {"saved", "killed"} => UNCHANGED vars
      ]_vars

\* C23, the case: a run that loaded an entry from the old file, looked up
\* another title, and saved: the file holds both entries.
C23_Witness ==
    /\ store_pc = "saved"
    /\ lookups_done > 0
    /\ cache_file.kind = "dict"
    /\ DOMAIN cache_file.entries = DOMAIN _persistent_tvmaze_cache
    /\ CacheKey("1", FALSE) \in DOMAIN cache_file.entries
    /\ DOMAIN cache_file.entries \cap FileKeys # {}

\* C26, as stated: if the process dies during save_tvmaze_cache, the file is
\* the complete old file or the complete new one.
C26_Original ==
    [][(store_pc = "run" /\ store_pc' = "killed") =>
           \/ cache_file' = cache_file
           \/ cache_file' = SavedFile(_persistent_tvmaze_cache)
      ]_vars

\* C26, the failing case: the run loaded entries from the old file, looked
\* nothing up, and died in the dump: the file is cut short, and the next
\* start-up loads an empty cache from it.
C26_Witness ==
    /\ store_pc = "killed"
    /\ lookups_done = 0
    /\ _persistent_tvmaze_cache # <<>>
    /\ cache_file = [kind |-> "undecodable"]
    /\ load_tvmaze_cache(cache_file) = Return(<<>>)

=============================================================================
